--------------------------- MODULE TxnBridgeProofs ----------------------------
(***************************************************************************)
(* Every phase reads the data of its own epoch, for any number of epochs   *)
(* and transactions and any lengths of the packed arrays.                  *)
(***************************************************************************)
EXTENDS TxnBridge, TLAPS

(* The two loops, call by call.                                            *)
LEMMA YcsbProgram ==
  ASSUME ~ packed
  PROVE  /\ Len(Program) = 19 /\ Len(Before) = 6
         /\ Program[1] = <<"link", "input">> /\ Program[2] = <<"link", "init">>
         /\ Program[3] = <<"link", "param">> /\ Program[4] = <<"link", "plan">>
         /\ Program[5] = <<"construct", "executor">> /\ Program[6] = <<"generate", "txns">>
         /\ Program[7] = <<"link", "input">> /\ Program[8] = <<"start", "input">>
         /\ Program[9] = <<"finish", "input">> /\ Program[10] = <<"index", "txns">>
         /\ Program[11] = <<"start", "init">> /\ Program[12] = <<"finish", "init">>
         /\ Program[13] = <<"start", "param">> /\ Program[14] = <<"submit", "ops">>
         /\ Program[15] = <<"initialize", "plan">> /\ Program[16] = <<"start", "plan">>
         /\ Program[17] = <<"finish", "param">> /\ Program[18] = <<"finish", "plan">>
         /\ Program[19] = <<"execute", "txns">>
<1>1. Program = Before \o YcsbRound
  BY DEF Program
<1>2. Len(Before) = 6 /\ Len(YcsbRound) = 13
  BY DEF Before, YcsbRound
<1>3. QED
  BY <1>1, <1>2 DEF Before, YcsbRound

LEMMA TpccProgram ==
  ASSUME packed
  PROVE  /\ Len(Program) = 21 /\ Len(Before) = 6
         /\ Program[1] = <<"link", "input">> /\ Program[2] = <<"link", "init">>
         /\ Program[3] = <<"link", "param">> /\ Program[4] = <<"link", "plan">>
         /\ Program[5] = <<"construct", "executor">> /\ Program[6] = <<"generate", "txns">>
         /\ Program[7] = <<"link", "input">> /\ Program[8] = <<"start", "input">>
         /\ Program[9] = <<"finish", "input">> /\ Program[10] = <<"build", "index_output">>
         /\ Program[11] = <<"build", "initialization_output">> /\ Program[12] = <<"index", "txns">>
         /\ Program[13] = <<"start", "init">> /\ Program[14] = <<"finish", "init">>
         /\ Program[15] = <<"submit", "ops">> /\ Program[16] = <<"initialize", "plan">>
         /\ Program[17] = <<"start", "param">> /\ Program[18] = <<"start", "plan">>
         /\ Program[19] = <<"finish", "param">> /\ Program[20] = <<"finish", "plan">>
         /\ Program[21] = <<"execute", "txns">>
<1>1. Program = Before \o TpccRound
  BY DEF Program
<1>2. Len(Before) = 6 /\ Len(TpccRound) = 15
  BY DEF Before, TpccRound
<1>3. QED
  BY <1>1, <1>2 DEF Before, TpccRound

LEMMA YcsbPlaces ==
  ASSUME ~ packed, pc \in 1 .. Len(Program) + 1
  PROVE  /\ pc \in 1 .. 20
         /\ At(<<"link", "input">>) => pc \in {1, 7}
         /\ Past(<<"link", "input">>) <=> pc > 1
         /\ (At(<<"link", "init">>) <=> pc = 2) /\ (Past(<<"link", "init">>) <=> pc > 2)
         /\ (At(<<"link", "param">>) <=> pc = 3) /\ (Past(<<"link", "param">>) <=> pc > 3)
         /\ (At(<<"link", "plan">>) <=> pc = 4) /\ (Past(<<"link", "plan">>) <=> pc > 4)
         /\ (At(<<"construct", "executor">>) <=> pc = 5) /\ (Past(<<"construct", "executor">>) <=> pc > 5)
         /\ (At(<<"generate", "txns">>) <=> pc = 6) /\ (Past(<<"generate", "txns">>) <=> pc > 6)
         /\ (At(<<"start", "input">>) <=> pc = 8) /\ (Past(<<"start", "input">>) <=> pc > 8)
         /\ (At(<<"finish", "input">>) <=> pc = 9) /\ (Past(<<"finish", "input">>) <=> pc > 9)
         /\ (At(<<"index", "txns">>) <=> pc = 10) /\ (Past(<<"index", "txns">>) <=> pc > 10)
         /\ (At(<<"start", "init">>) <=> pc = 11) /\ (Past(<<"start", "init">>) <=> pc > 11)
         /\ (At(<<"finish", "init">>) <=> pc = 12) /\ (Past(<<"finish", "init">>) <=> pc > 12)
         /\ (At(<<"start", "param">>) <=> pc = 13) /\ (Past(<<"start", "param">>) <=> pc > 13)
         /\ (At(<<"submit", "ops">>) <=> pc = 14) /\ (Past(<<"submit", "ops">>) <=> pc > 14)
         /\ (At(<<"initialize", "plan">>) <=> pc = 15) /\ (Past(<<"initialize", "plan">>) <=> pc > 15)
         /\ (At(<<"start", "plan">>) <=> pc = 16) /\ (Past(<<"start", "plan">>) <=> pc > 16)
         /\ (At(<<"finish", "param">>) <=> pc = 17) /\ (Past(<<"finish", "param">>) <=> pc > 17)
         /\ (At(<<"finish", "plan">>) <=> pc = 18) /\ (Past(<<"finish", "plan">>) <=> pc > 18)
         /\ (At(<<"execute", "txns">>) <=> pc = 19) /\ (Past(<<"execute", "txns">>) <=> pc > 19)
<1>1. Len(Program) = 19
  BY YcsbProgram, Zenon
<1>2. pc \in 1 .. 20
  BY <1>1, SMT
<1>3. At(<<"link", "input">>) => pc \in {1, 7}
  BY <1>1, <1>2, YcsbProgram, SMT DEF At
<1>4. Past(<<"link", "input">>) <=> pc > 1
  BY <1>2, YcsbProgram, SMT DEF Past
<1>5. (At(<<"link", "init">>) <=> pc = 2) /\ (Past(<<"link", "init">>) <=> pc > 2)
  BY <1>1, <1>2, YcsbProgram, SMT DEF At, Past
<1>6. (At(<<"link", "param">>) <=> pc = 3) /\ (Past(<<"link", "param">>) <=> pc > 3)
  BY <1>1, <1>2, YcsbProgram, SMT DEF At, Past
<1>7. (At(<<"link", "plan">>) <=> pc = 4) /\ (Past(<<"link", "plan">>) <=> pc > 4)
  BY <1>1, <1>2, YcsbProgram, SMT DEF At, Past
<1>8. (At(<<"construct", "executor">>) <=> pc = 5) /\ (Past(<<"construct", "executor">>) <=> pc > 5)
  BY <1>1, <1>2, YcsbProgram, SMT DEF At, Past
<1>9. (At(<<"generate", "txns">>) <=> pc = 6) /\ (Past(<<"generate", "txns">>) <=> pc > 6)
  BY <1>1, <1>2, YcsbProgram, SMT DEF At, Past
<1>10. (At(<<"start", "input">>) <=> pc = 8) /\ (Past(<<"start", "input">>) <=> pc > 8)
  BY <1>1, <1>2, YcsbProgram, SMT DEF At, Past
<1>11. (At(<<"finish", "input">>) <=> pc = 9) /\ (Past(<<"finish", "input">>) <=> pc > 9)
  BY <1>1, <1>2, YcsbProgram, SMT DEF At, Past
<1>12. (At(<<"index", "txns">>) <=> pc = 10) /\ (Past(<<"index", "txns">>) <=> pc > 10)
  BY <1>1, <1>2, YcsbProgram, SMT DEF At, Past
<1>13. (At(<<"start", "init">>) <=> pc = 11) /\ (Past(<<"start", "init">>) <=> pc > 11)
  BY <1>1, <1>2, YcsbProgram, SMT DEF At, Past
<1>14. (At(<<"finish", "init">>) <=> pc = 12) /\ (Past(<<"finish", "init">>) <=> pc > 12)
  BY <1>1, <1>2, YcsbProgram, SMT DEF At, Past
<1>15. (At(<<"start", "param">>) <=> pc = 13) /\ (Past(<<"start", "param">>) <=> pc > 13)
  BY <1>1, <1>2, YcsbProgram, SMT DEF At, Past
<1>16. (At(<<"submit", "ops">>) <=> pc = 14) /\ (Past(<<"submit", "ops">>) <=> pc > 14)
  BY <1>1, <1>2, YcsbProgram, SMT DEF At, Past
<1>17. (At(<<"initialize", "plan">>) <=> pc = 15) /\ (Past(<<"initialize", "plan">>) <=> pc > 15)
  BY <1>1, <1>2, YcsbProgram, SMT DEF At, Past
<1>18. (At(<<"start", "plan">>) <=> pc = 16) /\ (Past(<<"start", "plan">>) <=> pc > 16)
  BY <1>1, <1>2, YcsbProgram, SMT DEF At, Past
<1>19. (At(<<"finish", "param">>) <=> pc = 17) /\ (Past(<<"finish", "param">>) <=> pc > 17)
  BY <1>1, <1>2, YcsbProgram, SMT DEF At, Past
<1>20. (At(<<"finish", "plan">>) <=> pc = 18) /\ (Past(<<"finish", "plan">>) <=> pc > 18)
  BY <1>1, <1>2, YcsbProgram, SMT DEF At, Past
<1>21. (At(<<"execute", "txns">>) <=> pc = 19) /\ (Past(<<"execute", "txns">>) <=> pc > 19)
  BY <1>1, <1>2, YcsbProgram, SMT DEF At, Past
<1>22. QED
  BY <1>2, <1>3, <1>4, <1>5, <1>6, <1>7, <1>8, <1>9, <1>10, <1>11, <1>12, <1>13, <1>14, <1>15, <1>16, <1>17, <1>18, <1>19, <1>20, <1>21, Zenon

LEMMA TpccPlaces ==
  ASSUME packed, pc \in 1 .. Len(Program) + 1
  PROVE  /\ pc \in 1 .. 22
         /\ At(<<"link", "input">>) => pc \in {1, 7}
         /\ Past(<<"link", "input">>) <=> pc > 1
         /\ (At(<<"link", "init">>) <=> pc = 2) /\ (Past(<<"link", "init">>) <=> pc > 2)
         /\ (At(<<"link", "param">>) <=> pc = 3) /\ (Past(<<"link", "param">>) <=> pc > 3)
         /\ (At(<<"link", "plan">>) <=> pc = 4) /\ (Past(<<"link", "plan">>) <=> pc > 4)
         /\ (At(<<"construct", "executor">>) <=> pc = 5) /\ (Past(<<"construct", "executor">>) <=> pc > 5)
         /\ (At(<<"generate", "txns">>) <=> pc = 6) /\ (Past(<<"generate", "txns">>) <=> pc > 6)
         /\ (At(<<"start", "input">>) <=> pc = 8) /\ (Past(<<"start", "input">>) <=> pc > 8)
         /\ (At(<<"finish", "input">>) <=> pc = 9) /\ (Past(<<"finish", "input">>) <=> pc > 9)
         /\ (At(<<"build", "index_output">>) <=> pc = 10) /\ (Past(<<"build", "index_output">>) <=> pc > 10)
         /\ (At(<<"build", "initialization_output">>) <=> pc = 11) /\ (Past(<<"build", "initialization_output">>) <=> pc > 11)
         /\ (At(<<"index", "txns">>) <=> pc = 12) /\ (Past(<<"index", "txns">>) <=> pc > 12)
         /\ (At(<<"start", "init">>) <=> pc = 13) /\ (Past(<<"start", "init">>) <=> pc > 13)
         /\ (At(<<"finish", "init">>) <=> pc = 14) /\ (Past(<<"finish", "init">>) <=> pc > 14)
         /\ (At(<<"submit", "ops">>) <=> pc = 15) /\ (Past(<<"submit", "ops">>) <=> pc > 15)
         /\ (At(<<"initialize", "plan">>) <=> pc = 16) /\ (Past(<<"initialize", "plan">>) <=> pc > 16)
         /\ (At(<<"start", "param">>) <=> pc = 17) /\ (Past(<<"start", "param">>) <=> pc > 17)
         /\ (At(<<"start", "plan">>) <=> pc = 18) /\ (Past(<<"start", "plan">>) <=> pc > 18)
         /\ (At(<<"finish", "param">>) <=> pc = 19) /\ (Past(<<"finish", "param">>) <=> pc > 19)
         /\ (At(<<"finish", "plan">>) <=> pc = 20) /\ (Past(<<"finish", "plan">>) <=> pc > 20)
         /\ (At(<<"execute", "txns">>) <=> pc = 21) /\ (Past(<<"execute", "txns">>) <=> pc > 21)
<1>1. Len(Program) = 21
  BY TpccProgram, Zenon
<1>2. pc \in 1 .. 22
  BY <1>1, SMT
<1>3. At(<<"link", "input">>) => pc \in {1, 7}
  BY <1>1, <1>2, TpccProgram, SMT DEF At
<1>4. Past(<<"link", "input">>) <=> pc > 1
  BY <1>2, TpccProgram, SMT DEF Past
<1>5. (At(<<"link", "init">>) <=> pc = 2) /\ (Past(<<"link", "init">>) <=> pc > 2)
  BY <1>1, <1>2, TpccProgram, SMT DEF At, Past
<1>6. (At(<<"link", "param">>) <=> pc = 3) /\ (Past(<<"link", "param">>) <=> pc > 3)
  BY <1>1, <1>2, TpccProgram, SMT DEF At, Past
<1>7. (At(<<"link", "plan">>) <=> pc = 4) /\ (Past(<<"link", "plan">>) <=> pc > 4)
  BY <1>1, <1>2, TpccProgram, SMT DEF At, Past
<1>8. (At(<<"construct", "executor">>) <=> pc = 5) /\ (Past(<<"construct", "executor">>) <=> pc > 5)
  BY <1>1, <1>2, TpccProgram, SMT DEF At, Past
<1>9. (At(<<"generate", "txns">>) <=> pc = 6) /\ (Past(<<"generate", "txns">>) <=> pc > 6)
  BY <1>1, <1>2, TpccProgram, SMT DEF At, Past
<1>10. (At(<<"start", "input">>) <=> pc = 8) /\ (Past(<<"start", "input">>) <=> pc > 8)
  BY <1>1, <1>2, TpccProgram, SMT DEF At, Past
<1>11. (At(<<"finish", "input">>) <=> pc = 9) /\ (Past(<<"finish", "input">>) <=> pc > 9)
  BY <1>1, <1>2, TpccProgram, SMT DEF At, Past
<1>12. (At(<<"build", "index_output">>) <=> pc = 10) /\ (Past(<<"build", "index_output">>) <=> pc > 10)
  BY <1>1, <1>2, TpccProgram, SMT DEF At, Past
<1>13. (At(<<"build", "initialization_output">>) <=> pc = 11) /\ (Past(<<"build", "initialization_output">>) <=> pc > 11)
  BY <1>1, <1>2, TpccProgram, SMT DEF At, Past
<1>14. (At(<<"index", "txns">>) <=> pc = 12) /\ (Past(<<"index", "txns">>) <=> pc > 12)
  BY <1>1, <1>2, TpccProgram, SMT DEF At, Past
<1>15. (At(<<"start", "init">>) <=> pc = 13) /\ (Past(<<"start", "init">>) <=> pc > 13)
  BY <1>1, <1>2, TpccProgram, SMT DEF At, Past
<1>16. (At(<<"finish", "init">>) <=> pc = 14) /\ (Past(<<"finish", "init">>) <=> pc > 14)
  BY <1>1, <1>2, TpccProgram, SMT DEF At, Past
<1>17. (At(<<"submit", "ops">>) <=> pc = 15) /\ (Past(<<"submit", "ops">>) <=> pc > 15)
  BY <1>1, <1>2, TpccProgram, SMT DEF At, Past
<1>18. (At(<<"initialize", "plan">>) <=> pc = 16) /\ (Past(<<"initialize", "plan">>) <=> pc > 16)
  BY <1>1, <1>2, TpccProgram, SMT DEF At, Past
<1>19. (At(<<"start", "param">>) <=> pc = 17) /\ (Past(<<"start", "param">>) <=> pc > 17)
  BY <1>1, <1>2, TpccProgram, SMT DEF At, Past
<1>20. (At(<<"start", "plan">>) <=> pc = 18) /\ (Past(<<"start", "plan">>) <=> pc > 18)
  BY <1>1, <1>2, TpccProgram, SMT DEF At, Past
<1>21. (At(<<"finish", "param">>) <=> pc = 19) /\ (Past(<<"finish", "param">>) <=> pc > 19)
  BY <1>1, <1>2, TpccProgram, SMT DEF At, Past
<1>22. (At(<<"finish", "plan">>) <=> pc = 20) /\ (Past(<<"finish", "plan">>) <=> pc > 20)
  BY <1>1, <1>2, TpccProgram, SMT DEF At, Past
<1>23. (At(<<"execute", "txns">>) <=> pc = 21) /\ (Past(<<"execute", "txns">>) <=> pc > 21)
  BY <1>1, <1>2, TpccProgram, SMT DEF At, Past
<1>24. QED
  BY <1>2, <1>3, <1>4, <1>5, <1>6, <1>7, <1>8, <1>9, <1>10, <1>11, <1>12, <1>13, <1>14, <1>15, <1>16, <1>17, <1>18, <1>19, <1>20, <1>21, <1>22, <1>23, Zenon

(* What comes before what, in both loops.                                  *)
LEMMA Order ==
  ASSUME packed \in BOOLEAN, pc \in 1 .. Len(Program) + 1
  PROVE  /\ \A b \in Bridges : At(<<"link", b>>) => ~ Past(<<"start", b>>)
         /\ At(<<"construct", "executor">>) => Past(<<"link", "param">>) /\ Past(<<"link", "plan">>)
         /\ At(<<"generate", "txns">>) => \A b \in Bridges : ~ Past(<<"start", b>>)
         /\ \A b \in Bridges : At(<<"start", b>>) \/ Past(<<"start", b>>) => Relinked(b)
         /\ \A b \in Bridges : At(<<"start", b>>) => ~ Past(<<"finish", b>>)
         /\ At(<<"start", "input">>) \/ Past(<<"start", "input">>) => Past(<<"generate", "txns">>)
         /\ At(<<"start", "param">>) \/ Past(<<"start", "param">>) => Past(<<"index", "txns">>)
         /\ At(<<"start", "plan">>) \/ Past(<<"start", "plan">>) => Past(<<"initialize", "plan">>)
<1> DEFINE Claim(b) ==
             /\ At(<<"link", b>>) => ~ Past(<<"start", b>>)
             /\ At(<<"generate", "txns">>) => ~ Past(<<"start", b>>)
             /\ At(<<"start", b>>) \/ Past(<<"start", b>>) => Relinked(b)
             /\ At(<<"start", b>>) => ~ Past(<<"finish", b>>)
           Sources ==
             /\ At(<<"construct", "executor">>) => Past(<<"link", "param">>) /\ Past(<<"link", "plan">>)
             /\ At(<<"start", "input">>) \/ Past(<<"start", "input">>) => Past(<<"generate", "txns">>)
             /\ At(<<"start", "param">>) \/ Past(<<"start", "param">>) => Past(<<"index", "txns">>)
             /\ At(<<"start", "plan">>) \/ Past(<<"start", "plan">>) => Past(<<"initialize", "plan">>)
<1>1. CASE packed
  <2>1. Len(Before) = 6
    BY <1>1, TpccProgram, Zenon
  <2>2. Claim("input")
    BY <1>1, <2>1, TpccPlaces, SMT DEF Relinked
  <2>3. Claim("init")
    BY <1>1, TpccPlaces, SMT DEF Relinked
  <2>4. Claim("param")
    BY <1>1, TpccPlaces, SMT DEF Relinked
  <2>5. Claim("plan")
    BY <1>1, TpccPlaces, SMT DEF Relinked
  <2>6. Sources
    BY <1>1, TpccPlaces, SMT
  <2>7. QED
    BY <2>2, <2>3, <2>4, <2>5, <2>6, Zenon DEF Bridges
<1>2. CASE ~ packed
  <2>1. Len(Before) = 6
    BY <1>2, YcsbProgram, Zenon
  <2>2. Claim("input")
    BY <1>2, <2>1, YcsbPlaces, SMT DEF Relinked
  <2>3. Claim("init")
    BY <1>2, YcsbPlaces, SMT DEF Relinked
  <2>4. Claim("param")
    BY <1>2, YcsbPlaces, SMT DEF Relinked
  <2>5. Claim("plan")
    BY <1>2, YcsbPlaces, SMT DEF Relinked
  <2>6. Sources
    BY <1>2, YcsbPlaces, SMT
  <2>7. QED
    BY <2>2, <2>3, <2>4, <2>5, <2>6, Zenon DEF Bridges
<1>3. QED
  BY <1>1, <1>2, Zenon

(* What each phase finds behind it.                                        *)
LEMMA PhaseOrder ==
  ASSUME packed \in BOOLEAN, pc \in 1 .. Len(Program) + 1
  PROVE  /\ AtPhase("build") \/ AtPhase("index") =>
              Past(<<"start", "input">>) /\ Past(<<"finish", "input">>)
         /\ AtPhase("submit") => Past(<<"link", "init">>) /\ Past(<<"index", "txns">>)
         /\ AtPhase("execute") =>
              /\ Past(<<"construct", "executor">>)
              /\ Past(<<"index", "txns">>) /\ Past(<<"initialize", "plan">>)
              /\ Past(<<"start", "param">>) /\ Past(<<"finish", "param">>)
              /\ Past(<<"start", "plan">>) /\ Past(<<"finish", "plan">>)
         /\ packed => /\ AtPhase("index") => Past(<<"build", "index_output">>)
                      /\ AtPhase("initialize") => Past(<<"build", "initialization_output">>)
<1>1. CASE packed
  <2>1. Len(Program) = 21 /\ pc \in 1 .. 22
    BY <1>1, TpccProgram, TpccPlaces, Zenon
  <2>2. /\ AtPhase("build") => pc \in {10, 11}
        /\ AtPhase("index") => pc = 12
        /\ AtPhase("submit") => pc = 15
        /\ AtPhase("initialize") => pc = 16
        /\ AtPhase("execute") => pc = 21
    BY <1>1, <2>1, TpccProgram, SMT DEF AtPhase
  <2>3. QED
    BY <1>1, <2>2, TpccPlaces, SMT
<1>2. CASE ~ packed
  <2>1. Len(Program) = 19 /\ pc \in 1 .. 20
    BY <1>2, YcsbProgram, YcsbPlaces, Zenon
  <2>2. /\ ~ AtPhase("build")
        /\ AtPhase("index") => pc = 10
        /\ AtPhase("submit") => pc = 14
        /\ AtPhase("initialize") => pc = 15
        /\ AtPhase("execute") => pc = 19
    BY <1>2, <2>1, YcsbProgram, SMT DEF AtPhase
  <2>3. QED
    BY <1>2, <2>2, YcsbPlaces, SMT
<1>3. QED
  BY <1>1, <1>2, Zenon

(* Each phase is one call, or one of the two that build an index.          *)
LEMMA PhaseCalls ==
  ASSUME packed \in BOOLEAN, pc \in 1 .. Len(Program) + 1
  PROVE  /\ AtPhase("construct") => At(<<"construct", "executor">>)
         /\ AtPhase("generate") => At(<<"generate", "txns">>)
         /\ AtPhase("build") => \/ At(<<"build", "index_output">>)
                                \/ At(<<"build", "initialization_output">>)
         /\ At(<<"build", "index_output">>) => ~ At(<<"build", "initialization_output">>)
         /\ AtPhase("index") => At(<<"index", "txns">>)
         /\ AtPhase("submit") => At(<<"submit", "ops">>)
         /\ AtPhase("initialize") => At(<<"initialize", "plan">>)
         /\ AtPhase("execute") => At(<<"execute", "txns">>)
         /\ pc = Len(Program) => AtPhase("execute")
<1>1. CASE packed
  <2>1. Len(Program) = 21 /\ pc \in 1 .. 22
    BY <1>1, TpccProgram, TpccPlaces, Zenon
  <2>2. AtPhase("build") => pc = 10 \/ pc = 11
    BY <1>1, <2>1, TpccProgram, SMT DEF AtPhase
  <2>3. /\ AtPhase("construct") => pc = 5
        /\ AtPhase("generate") => pc = 6
        /\ AtPhase("index") => pc = 12
        /\ AtPhase("submit") => pc = 15
        /\ AtPhase("initialize") => pc = 16
        /\ AtPhase("execute") <=> pc = 21
    BY <1>1, <2>1, TpccProgram, SMT DEF AtPhase
  <2>4. QED
    BY <1>1, <2>1, <2>2, <2>3, TpccPlaces, SMT
<1>2. CASE ~ packed
  <2>1. Len(Program) = 19 /\ pc \in 1 .. 20
    BY <1>2, YcsbProgram, YcsbPlaces, Zenon
  <2>2. ~ AtPhase("build")
    BY <1>2, <2>1, YcsbProgram, SMT DEF AtPhase
  <2>3. /\ AtPhase("construct") => pc = 5
        /\ AtPhase("generate") => pc = 6
        /\ AtPhase("index") => pc = 10
        /\ AtPhase("submit") => pc = 14
        /\ AtPhase("initialize") => pc = 15
        /\ AtPhase("execute") <=> pc = 19
    BY <1>2, <2>1, YcsbProgram, SMT DEF AtPhase
  <2>4. QED
    BY <1>2, <2>1, <2>2, <2>3, YcsbPlaces, SMT DEF At, AtPhase
<1>3. QED
  BY <1>1, <1>2, Zenon

(* A call once made is past; nothing else changes that within an epoch.    *)
LEMMA NextCall ==
  ASSUME packed' = packed, pc \in 1 .. Len(Program) + 1, NEW call, At(call), pc' = pc + 1
  PROVE  \A c : Past(c)' <=> Past(c) \/ c = call
<1>1. Program' = Program
  BY DEF Program, Before, YcsbRound, TpccRound
<1>2. pc \in Nat /\ pc > 0
  <2>1. pc > 0
    BY SMT
  <2>2. QED
    BY <2>1, SMT
<1>3. 1 .. pc' - 1 = (1 .. pc - 1) \cup {pc}
  BY <1>2, SMT
<1>4. Program[pc] = call
  BY Zenon DEF At
<1>5. QED
  BY <1>1, <1>3, <1>4, Zenon DEF Past

(* A round starts with what was done before the loop.                      *)
LEMMA NextRound ==
  ASSUME packed \in BOOLEAN, packed' = packed, pc' = Len(Before) + 1
  PROVE  /\ \A b \in Bridges : /\ Past(<<"link", b>>)'
                               /\ ~ Past(<<"start", b>>)' /\ ~ Past(<<"finish", b>>)'
         /\ Past(<<"construct", "executor">>)' /\ Past(<<"generate", "txns">>)'
         /\ ~ Past(<<"build", "index_output">>)' /\ ~ Past(<<"build", "initialization_output">>)'
         /\ ~ Past(<<"index", "txns">>)' /\ ~ Past(<<"initialize", "plan">>)'
<1>1. /\ Program' = Program /\ pc' - 1 = 6
      /\ Program[1] = <<"link", "input">> /\ Program[2] = <<"link", "init">>
      /\ Program[3] = <<"link", "param">> /\ Program[4] = <<"link", "plan">>
      /\ Program[5] = <<"construct", "executor">> /\ Program[6] = <<"generate", "txns">>
  <2>1. Program' = Program
    BY DEF Program, Before, YcsbRound, TpccRound
  <2>2. QED
    BY <2>1, YcsbProgram, TpccProgram, SMT
<1>2. \A c : Past(c)' <=> \E i \in 1 .. 6 : Program[i] = c
  BY <1>1, Zenon DEF Past
<1>3. \A c : Past(c)' <=> \/ c = Program[1] \/ c = Program[2] \/ c = Program[3]
                          \/ c = Program[4] \/ c = Program[5] \/ c = Program[6]
  <2>1. \A i : i \in 1 .. 6 <=> i = 1 \/ i = 2 \/ i = 3 \/ i = 4 \/ i = 5 \/ i = 6
    BY SMT
  <2>2. QED
    BY <1>2, <2>1, Zenon
<1>4. QED
  BY <1>1, <1>3, SMT DEF Bridges

(* Calls are told apart by their names.                                    *)
LEMMA CallNames ==
  /\ \A b \in Bridges : /\ <<"link", b>>[1] = "link" /\ <<"start", b>>[1] = "start"
                        /\ <<"finish", b>>[1] = "finish"
  /\ \A b, c \in Bridges : /\ <<"finish", b>> = <<"finish", c>> => b = c
                           /\ <<"start", b>> = <<"start", c>> => b = c
                           /\ <<"link", b>> = <<"link", c>> => b = c
  /\ \A c : c[1] \in {"submit", "finish", "construct", "generate", "build", "index", "initialize"} =>
       \A b \in Bridges : c # <<"link", b>> /\ c # <<"start", b>>
  /\ \A c : c[1] \in {"submit", "start", "link", "construct", "generate", "build", "index", "initialize"} =>
       \A b \in Bridges : c # <<"finish", b>>
  /\ \A c : c[1] \in {"submit", "start", "finish", "link"} =>
       c \notin {<<"construct", "executor">>, <<"generate", "txns">>,
                 <<"build", "index_output">>, <<"build", "initialization_output">>,
                 <<"index", "txns">>, <<"initialize", "plan">>}
  /\ <<"submit", "ops">>[1] = "submit" /\ <<"construct", "executor">>[1] = "construct"
  /\ <<"generate", "txns">>[1] = "generate" /\ <<"build", "index_output">>[1] = "build"
  /\ <<"build", "initialization_output">>[1] = "build" /\ <<"index", "txns">>[1] = "index"
  /\ <<"initialize", "plan">>[1] = "initialize"
BY DEF Bridges

-----------------------------------------------------------------------------
(* Arrays and bridges.                                                     *)
LEMMA ArrayNames ==
  /\ \A a \in {IndexInput, IndexOutput, InitInput, InitOutput, ParamInput, PlanInput} :
       a \in Arrays /\ a \notin TxnArrays
  /\ \A a \in {IndexOutput, InitOutput} :
       a # IndexInput /\ a # InitInput /\ a # ParamInput /\ a # PlanInput
  /\ IndexOutput # InitOutput /\ ParamInput # PlanInput /\ InitInput # ParamInput
  /\ InitInput # PlanInput /\ IndexInput # ParamInput /\ IndexInput # PlanInput
  /\ IndexInput # InitInput
  /\ \A e \in Epochs : TxnArray(e) \in TxnArrays
  /\ \A a \in TxnArrays : a \in Arrays /\ a[2] \in Epochs /\ a = TxnArray(a[2])
  /\ \A e : TxnArray(e)[2] = e
  /\ Null \notin Arrays
  /\ \A b \in Bridges : b \in {"input", "init", "param", "plan"}
BY DEF Arrays, TxnArrays, TxnArray, IndexInput, IndexOutput, InitInput, InitOutput, ParamInput,
       PlanInput, Null, Bridges

LEMMA Devices ==
  /\ \A e \in Epochs : Device(TxnArray(e)) = "CPU"
  /\ Device(IndexInput) = "GPU" /\ Device(IndexOutput) = "GPU"
  /\ Device(InitInput) = "GPU" /\ Device(InitOutput) = "GPU"
  /\ Device(ParamInput) = executionDevice /\ Device(PlanInput) = executionDevice
BY ArrayNames DEF Device

LEMMA EndsOfBridges ==
  /\ Ends("input") = <<TxnArray(epoch), IndexInput>>
  /\ Ends("init") = <<IndexOutput, InitInput>>
  /\ Ends("param") = <<IndexOutput, ParamInput>>
  /\ Ends("plan") = <<InitOutput, PlanInput>>
BY DEF Ends

LEMMA EndsPaired ==
  /\ Ends("input")[1] = TxnArray(epoch) /\ Ends("input")[2] = IndexInput
  /\ Ends("init")[1] = IndexOutput /\ Ends("init")[2] = InitInput
  /\ Ends("param")[1] = IndexOutput /\ Ends("param")[2] = ParamInput
  /\ Ends("plan")[1] = InitOutput /\ Ends("plan")[2] = PlanInput
BY EndsOfBridges

(* Only the first array of one bridge depends on the epoch.                *)
LEMMA EndsKept ==
  /\ \A b \in Bridges : Ends(b)'[2] = Ends(b)[2]
  /\ \A b \in Bridges : epoch' = epoch \/ b # "input" => Ends(b)' = Ends(b)
BY DEF Ends, Bridges

LEMMA CarriedData ==
  /\ Carried("input") = <<"txn", epoch>> /\ Carried("init") = <<"param", epoch>>
  /\ Carried("param") = <<"param", epoch>> /\ Carried("plan") = <<"plan", epoch>>
BY DEF Carried

LEMMA DataOfEpoch ==
  ASSUME epoch \in Epochs
  PROVE  /\ \A k \in Kinds : <<k, epoch>> \in Kinds \X Epochs
         /\ \A b \in Bridges : Carried(b) \in Kinds \X Epochs
BY DEF Kinds, Bridges, Carried

(* The parts data occupy are those of an array.                            *)
LEMMA Extents ==
  ASSUME packed \in BOOLEAN, NEW d \in Kinds \X Epochs
  PROVE  /\ End(d) \in 0 .. Capacity
         /\ Extent(d) \subseteq Parts /\ IndexPart \in Parts
         /\ packed => Extent(d) = 0 .. End(d) - 1 \cup {IndexPart}
         /\ ~ packed => Extent(d) = 0 .. Capacity - 1
         /\ d # Zeroed
<1>1. d # Zeroed
  BY DEF Kinds, Zeroed
<1>2. End(d) \in 0 .. Capacity
  <2>1. CASE packed
    <3>1. NumTxns + 1 \in 1 .. NumTxns + 1
      BY BridgeAssumption, SMT
    <3>2. PackedIndex[d] \in [1 .. NumTxns + 1 -> 0 .. Capacity]
      BY BridgeAssumption, Zenon
    <3>3. QED
      BY <1>1, <2>1, <3>1, <3>2, Zenon DEF End
  <2>2. CASE ~ packed
    BY <1>1, <2>2, BridgeAssumption, SMT DEF End
  <2>3. QED
    BY <2>1, <2>2, Zenon
<1>3. 0 .. End(d) - 1 \subseteq Parts /\ IndexPart \in Parts
  BY <1>2, BridgeAssumption, SMT DEF Parts, IndexPart
<1>4. ~ packed => End(d) = Capacity
  BY <1>1, Zenon DEF End
<1>5. QED
  BY <1>1, <1>2, <1>3, <1>4, Zenon DEF Extent

(* A bridge that is linked in this epoch, between two devices.             *)
LEMMA Crossing ==
  ASSUME BridgeInv, NEW b \in Bridges, Relinked(b)
  PROVE  /\ bridge[b].from = Ends(b)[1] /\ bridge[b].to = Ends(b)[2]
         /\ bridge[b].src = Ends(b)[1] /\ bridge[b].dest = Target(Ends(b)[2])
         /\ Crosses(b) =>
              \/ b = "input" /\ bridge[b].src = TxnArray(epoch) /\ bridge[b].dest = IndexInput
              \/ b = "param" /\ bridge[b].src = IndexOutput /\ bridge[b].dest = ParamInput
              \/ b = "plan" /\ bridge[b].src = InitOutput /\ bridge[b].dest = PlanInput
<1>1. epoch \in Epochs /\ TxnArray(epoch) \in TxnArrays /\ Past(<<"link", b>>)
  BY ArrayNames, Zenon DEF BridgeInv, TypeOK, Relinked
<1>2. b = "input" \/ b = "init" \/ b = "param" \/ b = "plan"
  BY Zenon DEF Bridges
<1>3. Ends(b)[1] \in TxnArrays \cup {IndexOutput, InitOutput}
  BY <1>1, <1>2, EndsPaired, Zenon
<1>4. /\ bridge[b].from = Ends(b)[1] /\ bridge[b].to = Ends(b)[2]
      /\ bridge[b].src = store[Ends(b)[1]] /\ bridge[b].dest = store[Ends(b)[2]]
  BY Zenon DEF BridgeInv, BridgesLinked
<1>5. store[Ends(b)[1]] = Ends(b)[1] /\ store[Ends(b)[2]] = Target(Ends(b)[2])
  BY <1>1, <1>3, Zenon DEF BridgeInv, PointersSet, OwnMemory
<1>6. Crosses(b) <=> Device(Ends(b)[1]) # Device(Ends(b)[2])
  BY <1>4, Zenon DEF Crosses
<1>7. /\ Target(IndexInput) = IndexInput
      /\ executionDevice # "GPU" => Target(ParamInput) = ParamInput /\ Target(PlanInput) = PlanInput
  BY ArrayNames, Zenon DEF Target, OwnMemory
<1>8. CASE b = "input"
  BY <1>4, <1>5, <1>7, <1>8, EndsPaired, Zenon
<1>9. CASE b = "init"
  <2>1. ~ Crosses(b)
    BY <1>6, <1>9, EndsPaired, Devices, Zenon
  <2>2. QED
    BY <1>4, <1>5, <2>1, Zenon
<1>10. CASE b = "param"
  BY <1>4, <1>5, <1>6, <1>7, <1>10, EndsPaired, Devices, Zenon
<1>11. CASE b = "plan"
  BY <1>4, <1>5, <1>6, <1>7, <1>11, EndsPaired, Devices, Zenon
<1>12. QED
  BY <1>2, <1>8, <1>9, <1>10, <1>11, Zenon

-----------------------------------------------------------------------------
(* The host's program goes on: to the next call, or to the next round.     *)
LEMMA ProgramLength ==
  ASSUME packed \in BOOLEAN
  PROVE  Len(Program) \in Nat /\ Len(Program) > 6 /\ Len(Before) = 6
<1>1. (Len(Program) = 19 \/ Len(Program) = 21) /\ Len(Before) = 6
  BY YcsbProgram, TpccProgram, Zenon
<1>2. \A n : n = 19 \/ n = 21 => n \in Nat /\ n > 6
  BY SMT
<1>3. QED
  BY <1>1, <1>2, Zenon

LEMMA CallStep ==
  ASSUME TypeOK, NEW call, At(call), ~ AtPhase("execute"), Proceed, packed' = packed
  PROVE  /\ pc' = pc + 1 /\ epoch' = epoch
         /\ epoch' \in Epochs /\ (pc \in 1 .. Len(Program) + 1)'
         /\ \A c : Past(c)' <=> Past(c) \/ c = call
<1>1. packed \in BOOLEAN /\ pc \in 1 .. Len(Program) + 1 /\ epoch \in Epochs
  BY Zenon DEF TypeOK
<1>2. pc # Len(Program)
  BY <1>1, PhaseCalls, Zenon
<1>3. pc' = pc + 1 /\ epoch' = epoch
  BY <1>2, Zenon DEF Proceed
<1>4. Program' = Program
  BY DEF Program, Before, YcsbRound, TpccRound
<1>5. pc <= Len(Program)
  BY Zenon DEF At
<1>6. (pc \in 1 .. Len(Program) + 1)'
  BY <1>1, <1>3, <1>4, <1>5, ProgramLength, SMT
<1>7. QED
  BY <1>1, <1>3, <1>6, NextCall, Zenon

(* Calls with a phase of their own are not links.                          *)
LEMMA RelinkedKept ==
  ASSUME packed \in BOOLEAN, pc \in 1 .. Len(Program) + 1, pc' = pc + 1,
         ~ At(<<"link", "input">>), \A b \in Bridges : Past(<<"link", b>>)' <=> Past(<<"link", b>>)
  PROVE  \A b \in Bridges : Relinked(b)' <=> Relinked(b)
<1>1. pc # 7
  <2>1. Program[7] = <<"link", "input">>
    BY YcsbProgram, TpccProgram, Zenon
  <2>2. 7 <= Len(Program)
    BY ProgramLength, SMT
  <2>3. QED
    BY <2>1, <2>2, Zenon DEF At
<1>2. pc' > Len(Before)' + 1 <=> pc > Len(Before) + 1
  <2>1. Len(Before)' = Len(Before) /\ Len(Before) = 6
    BY ProgramLength, Zenon DEF Before
  <2>2. pc \in Nat
    BY SMT
  <2>3. pc + 1 > 6 + 1 <=> pc > 6 + 1
    BY <1>1, <2>2, SMT
  <2>4. QED
    BY <2>1, <2>3, Zenon
<1>3. QED
  BY <1>2, Zenon DEF Relinked

(* The frame of all calls but Link and the executor's construction.        *)
LEMMA LinksKept ==
  ASSUME BridgeInv, UNCHANGED <<packed, executionDevice, store, held>>, epoch' = epoch,
         \A b \in Bridges : /\ bridge'[b].from = bridge[b].from /\ bridge'[b].src = bridge[b].src
                            /\ bridge'[b].to = bridge[b].to /\ bridge'[b].dest = bridge[b].dest
                            /\ Past(<<"link", b>>)' <=> Past(<<"link", b>>)
                            /\ Relinked(b)' <=> Relinked(b),
         Past(<<"construct", "executor">>)' <=> Past(<<"construct", "executor">>)
  PROVE  /\ PointersSet' /\ BridgesLinked' /\ ExecutorLinked'
         /\ \A b \in Bridges : Crosses(b)' <=> Crosses(b)
<1>1. /\ \A b \in Bridges : Ends(b)' = Ends(b)
      /\ \A a : Target(a)' = Target(a)
  BY EndsKept, Zenon DEF Target, OwnMemory
<1>2. PointersSet'
  BY <1>1, Zenon DEF BridgeInv, PointersSet, OwnMemory
<1>3. ExecutorLinked'
  BY <1>1, Zenon DEF BridgeInv, ExecutorLinked
<1>4. BridgesLinked'
  BY <1>1, Zenon DEF BridgeInv, BridgesLinked
<1>5. \A b \in Bridges : Crosses(b)' <=> Crosses(b)
  BY Zenon DEF Crosses, Device
<1>6. QED
  BY <1>2, <1>3, <1>4, <1>5, Zenon

(* A device keeps its name for what data occupy.                           *)
LEMMA DataKept ==
  ASSUME packed' = packed
  PROVE  /\ \A d : End(d)' = End(d) /\ Extent(d)' = Extent(d)
         /\ \A b : epoch' = epoch => Carried(b)' = Carried(b)
BY DEF End, Extent, Carried

(* A step of the host that is neither a link nor the end of a round.       *)
LEMMA PhaseStep ==
  ASSUME BridgeInv, NEW call, At(call), ~ AtPhase("execute"), Proceed,
         \A b \in Bridges : call # <<"link", b>>, call # <<"construct", "executor">>,
         UNCHANGED <<packed, executionDevice, store, held>>,
         \A b \in Bridges : /\ bridge'[b].from = bridge[b].from /\ bridge'[b].src = bridge[b].src
                            /\ bridge'[b].to = bridge[b].to /\ bridge'[b].dest = bridge[b].dest
  PROVE  /\ PointersSet' /\ BridgesLinked' /\ ExecutorLinked'
         /\ epoch' = epoch /\ epoch' \in Epochs /\ (pc \in 1 .. Len(Program) + 1)'
         /\ \A c : Past(c)' <=> Past(c) \/ c = call
         /\ \A b \in Bridges : (Crosses(b)' <=> Crosses(b)) /\ (Relinked(b)' <=> Relinked(b))
         /\ \A d : End(d)' = End(d) /\ Extent(d)' = Extent(d)
         /\ \A b : Carried(b)' = Carried(b)
<1>1. /\ packed \in BOOLEAN /\ pc \in 1 .. Len(Program) + 1
      /\ pc' = pc + 1 /\ epoch' = epoch /\ epoch' \in Epochs /\ (pc \in 1 .. Len(Program) + 1)'
      /\ \A c : Past(c)' <=> Past(c) \/ c = call
  BY CallStep, Zenon DEF BridgeInv, TypeOK
<1>2. ~ At(<<"link", "input">>)
  BY Zenon DEF At, Bridges
<1>3. \A b \in Bridges : Relinked(b)' <=> Relinked(b)
  BY <1>1, <1>2, RelinkedKept, Zenon
<1>4. QED
  BY <1>1, <1>3, LinksKept, DataKept, Zenon

-----------------------------------------------------------------------------
(* The inductive invariant, action by action.                              *)

LEMMA InitInv ==
  ASSUME Init
  PROVE  BridgeInv
<1>1. /\ packed \in BOOLEAN /\ pc = 1 /\ epoch = 1 /\ bridge = [b \in Bridges |-> Unlinked]
      /\ store = [a \in Arrays |-> Constructed(a)]
  BY Zenon DEF Init
<1>2. \A c : ~ Past(c)
  <2>1. \A i : i \notin 1 .. pc - 1
    BY <1>1, SMT
  <2>2. QED
    BY <2>1, Zenon DEF Past
<1>3. \A a \in Arrays : Constructed(a) \in {a, Null}
  BY Zenon DEF Constructed, OwnMemory
<1>4. TypeOK
  <2>1. epoch \in Epochs /\ pc \in 1 .. Len(Program) + 1
    <3>1. epoch \in Epochs
      BY <1>1, BridgeAssumption, SMT DEF Epochs
    <3>2. \A n : n \in Nat => 1 \in 1 .. n + 1
      BY SMT
    <3>3. QED
      BY <1>1, <3>1, <3>2, ProgramLength, Zenon
  <2>2. store \in [Arrays -> Arrays \cup {Null}]
    BY <1>1, <1>3
  <2>3. \A a \in Arrays : store[a] /= Null => Device(store[a]) = Device(a)
    BY <1>1, <1>3, Zenon
  <2>4. size \in [Arrays -> 0 .. Capacity]
    BY BridgeAssumption, SMT DEF Init
  <2>5. mem \in [Arrays -> [Parts -> {Zeroed} \cup (Kinds \X Epochs)]]
    BY DEF Init
  <2>6. bridge \in [Bridges -> [src : Arrays \cup {Null}, dest : Arrays \cup {Null},
                                from : Arrays \cup {Null}, to : Arrays \cup {Null},
                                pending : SUBSET Parts]]
    BY <1>1 DEF Unlinked
  <2>7. held \in [{ParamInput, PlanInput} -> [store : Arrays \cup {Null}, size : 0 .. Capacity]]
    <3>1. 0 \in 0 .. Capacity
      BY BridgeAssumption, SMT
    <3>2. QED
      BY <3>1 DEF Init
  <2>8. executionDevice \in {"CPU", "GPU"}
    BY Zenon DEF Init
  <2>9. QED
    BY <1>1, <2>1, <2>2, <2>3, <2>4, <2>5, <2>6, <2>7, <2>8, Zenon DEF TypeOK
<1>5. PointersSet
  <2>1. \A a \in TxnArrays \cup {IndexOutput, InitOutput} : store[a] = OwnMemory(a)
    BY <1>1, ArrayNames, Zenon DEF Constructed
  <2>2. \A a \in {IndexInput, InitInput, ParamInput, PlanInput} : store[a] = Null
    BY <1>1, ArrayNames, Zenon DEF Constructed
  <2>3. \A b \in Bridges : Ends(b)[2] \in {IndexInput, InitInput, ParamInput, PlanInput}
    BY EndsPaired, ArrayNames, Zenon
  <2>4. QED
    BY <1>2, <2>1, <2>2, <2>3, Zenon DEF PointersSet
<1>6. \A b \in Bridges : bridge[b].pending = {}
  BY <1>1 DEF Unlinked
<1>7. /\ BridgesLinked /\ ExecutorLinked /\ CopiesInTheirPhase /\ CopiedOrPending
      /\ TxnsGenerated /\ OutputsWritten
  BY <1>2, <1>6, Zenon DEF BridgesLinked, Relinked, ExecutorLinked, CopiesInTheirPhase,
     CopiedOrPending, TxnsGenerated, OutputsWritten
<1>8. QED
  BY <1>4, <1>5, <1>7, Zenon DEF BridgeInv

(* A call of the host that leaves the bridges as they are.                 *)
LEMMA QuietStep ==
  ASSUME BridgeInv, NEW call, At(call), ~ AtPhase("execute"), Proceed,
         \A b \in Bridges : call # <<"link", b>> /\ call # <<"start", b>>,
         \A b \in Bridges : call = <<"finish", b>> => bridge[b].pending = {},
         call # <<"construct", "executor">>,
         UNCHANGED <<packed, executionDevice, store, held, bridge>>,
         mem' \in [Arrays -> [Parts -> {Zeroed} \cup (Kinds \X Epochs)]],
         size' \in [Arrays -> 0 .. Capacity],
         call # <<"generate", "txns">> =>
           \A a \in {IndexInput, ParamInput, PlanInput} : mem'[a] = mem[a]
  PROVE  /\ TypeOK' /\ PointersSet' /\ BridgesLinked' /\ ExecutorLinked'
         /\ CopiesInTheirPhase' /\ CopiedOrPending'
         /\ epoch' = epoch
         /\ \A c : Past(c)' <=> Past(c) \/ c = call
         /\ \A d : End(d)' = End(d) /\ Extent(d)' = Extent(d)
<1>1. /\ PointersSet' /\ BridgesLinked' /\ ExecutorLinked'
      /\ epoch' = epoch /\ epoch' \in Epochs /\ (pc \in 1 .. Len(Program) + 1)'
      /\ \A c : Past(c)' <=> Past(c) \/ c = call
      /\ \A b \in Bridges : (Crosses(b)' <=> Crosses(b)) /\ (Relinked(b)' <=> Relinked(b))
      /\ \A d : End(d)' = End(d) /\ Extent(d)' = Extent(d)
      /\ \A b : Carried(b)' = Carried(b)
  BY PhaseStep, Zenon
<1>2. TypeOK'
  BY <1>1, Zenon DEF BridgeInv, TypeOK, Device
<1>3. CopiesInTheirPhase'
  BY <1>1, Zenon DEF BridgeInv, CopiesInTheirPhase
<1>4. CopiedOrPending'
  <2>1. SUFFICES ASSUME NEW b \in Bridges, Past(<<"start", b>>), Crosses(b)
                 PROVE  mem'[bridge[b].dest] = mem[bridge[b].dest]
    BY <1>1, <2>1, Zenon DEF BridgeInv, CopiedOrPending
  <2>2. packed \in BOOLEAN /\ pc \in 1 .. Len(Program) + 1
    BY Zenon DEF BridgeInv, TypeOK
  <2>3. call # <<"generate", "txns">>
    BY <2>1, <2>2, Order, Zenon
  <2>4. Relinked(b)
    BY <2>1, <2>2, Order, Zenon
  <2>5. bridge[b].dest \in {IndexInput, ParamInput, PlanInput}
    BY <2>1, <2>4, Crossing, Zenon
  <2>6. QED
    BY <2>3, <2>5, Zenon
<1>5. QED
  BY <1>1, <1>2, <1>3, <1>4, Zenon

(* Where the generated transactions and the results stay as they are.      *)
LEMMA ContentsKept ==
  ASSUME BridgeInv, epoch' = epoch, packed' = packed,
         \A d : End(d)' = End(d) /\ Extent(d)' = Extent(d),
         Past(<<"generate", "txns">>)' => Past(<<"generate", "txns">>),
         \A a \in TxnArrays : mem'[a] = mem[a] /\ size'[a] = size[a]
  PROVE  /\ TxnsGenerated'
         /\ (/\ \A c \in {<<"build", "index_output">>, <<"build", "initialization_output">>,
                          <<"index", "txns">>, <<"initialize", "plan">>} : Past(c)' => Past(c)
             /\ mem'[IndexOutput] = mem[IndexOutput] /\ mem'[InitOutput] = mem[InitOutput])
              => OutputsWritten'
<1>1. TxnsGenerated'
  <2>1. \A e \in Epochs : TxnArray(e)' = TxnArray(e) /\ TxnArray(e) \in TxnArrays
    BY ArrayNames, Zenon DEF TxnArray
  <2>2. QED
    BY <2>1, Zenon DEF BridgeInv, TxnsGenerated
<1>2. QED
  BY <1>1, Zenon DEF BridgeInv, OutputsWritten

(* A call of the host that leaves the memory as it is.                     *)
LEMMA IdleStep ==
  ASSUME BridgeInv, NEW call, At(call), ~ AtPhase("execute"), Proceed,
         \A b \in Bridges : call # <<"link", b>> /\ call # <<"start", b>>,
         \A b \in Bridges : call = <<"finish", b>> => bridge[b].pending = {},
         call \notin {<<"construct", "executor">>, <<"generate", "txns">>,
                      <<"build", "index_output">>, <<"build", "initialization_output">>,
                      <<"index", "txns">>, <<"initialize", "plan">>},
         UNCHANGED <<packed, executionDevice, store, held, bridge, mem, size>>
  PROVE  BridgeInv'
<1>1. /\ mem' \in [Arrays -> [Parts -> {Zeroed} \cup (Kinds \X Epochs)]]
      /\ size' \in [Arrays -> 0 .. Capacity]
  BY Zenon DEF BridgeInv, TypeOK
<1>2. /\ TypeOK' /\ PointersSet' /\ BridgesLinked' /\ ExecutorLinked'
      /\ CopiesInTheirPhase' /\ CopiedOrPending' /\ epoch' = epoch
      /\ \A c : Past(c)' <=> Past(c) \/ c = call
      /\ \A d : End(d)' = End(d) /\ Extent(d)' = Extent(d)
  BY <1>1, QuietStep, Zenon
<1>3. TxnsGenerated' /\ OutputsWritten'
  BY <1>2, ContentsKept, Zenon
<1>4. QED
  BY <1>2, <1>3, Zenon DEF BridgeInv

LEMMA FinishStep ==
  ASSUME BridgeInv, NEW b \in Bridges, FinishTransfer(b) \/ FinishPackedTransfer(b)
  PROVE  BridgeInv'
<1>1. /\ At(<<"finish", b>>) /\ bridge[b].pending = {} /\ Proceed
      /\ UNCHANGED <<packed, executionDevice, store, size, mem, bridge, held>>
  BY Zenon DEF FinishTransfer, FinishPackedTransfer, Synchronized
<1>2. ~ AtPhase("execute")
  BY <1>1, CallNames DEF At, AtPhase
<1>3. QED
  BY <1>1, <1>2, CallNames, IdleStep, Zenon

LEMMA SubmitStep ==
  ASSUME BridgeInv, SubmitOrExecute, ~ AtPhase("execute")
  PROVE  BridgeInv'
<1>1. /\ At(<<"submit", "ops">>) /\ Proceed
      /\ UNCHANGED <<packed, executionDevice, store, size, mem, bridge, held>>
  BY PhaseCalls, Zenon DEF SubmitOrExecute, BridgeInv, TypeOK
<1>2. QED
  BY <1>1, CallNames, IdleStep, Zenon

(* What a phase writes of an array of its own.                             *)
LEMMA StoredContents ==
  ASSUME BridgeInv, NEW a \in {IndexOutput, InitOutput}, NEW parts, NEW d \in Kinds \X Epochs,
         mem' = Stored(a, parts, d)
  PROVE  /\ mem' \in [Arrays -> [Parts -> {Zeroed} \cup (Kinds \X Epochs)]]
         /\ \A p \in Parts : mem'[a][p] = IF p \in parts THEN d ELSE mem[a][p]
         /\ \A c \in Arrays : c # a => mem'[c] = mem[c]
<1>1. store[a] = a /\ a \in Arrays
  BY ArrayNames, Zenon DEF BridgeInv, PointersSet, OwnMemory
<1>2. mem \in [Arrays -> [Parts -> {Zeroed} \cup (Kinds \X Epochs)]]
  BY Zenon DEF BridgeInv, TypeOK
<1>3. mem' = [mem EXCEPT ![a] = [p \in Parts |-> IF p \in parts THEN d ELSE mem[a][p]]]
  BY <1>1, <1>2 DEF Stored
<1>4. [p \in Parts |-> IF p \in parts THEN d ELSE mem[a][p]] \in [Parts -> {Zeroed} \cup (Kinds \X Epochs)]
  BY <1>1, <1>2
<1>5. QED
  BY <1>1, <1>2, <1>3, <1>4

AllButOutputs ==
  /\ TypeOK /\ PointersSet /\ BridgesLinked /\ ExecutorLinked
  /\ CopiesInTheirPhase /\ CopiedOrPending /\ TxnsGenerated

(* Where a phase writes an array of its own, the rest of what is said of   *)
(* arrays and bridges remains so.                                          *)
LEMMA WriteStep ==
  ASSUME BridgeInv, NEW a \in {IndexOutput, InitOutput}, NEW parts, NEW d \in Kinds \X Epochs,
         mem' = Stored(a, parts, d),
         NEW call, At(call), ~ AtPhase("execute"), Proceed,
         call[1] \in {"build", "index", "initialize"},
         UNCHANGED <<packed, executionDevice, store, size, held, bridge>>
  PROVE  /\ AllButOutputs'
         /\ epoch' = epoch
         /\ \A c : Past(c)' <=> Past(c) \/ c = call
         /\ \A e : End(e)' = End(e) /\ Extent(e)' = Extent(e)
         /\ \A p \in Parts : mem'[a][p] = IF p \in parts THEN d ELSE mem[a][p]
         /\ \A c \in Arrays : c # a => mem'[c] = mem[c]
<1>1. /\ mem' \in [Arrays -> [Parts -> {Zeroed} \cup (Kinds \X Epochs)]]
      /\ \A p \in Parts : mem'[a][p] = IF p \in parts THEN d ELSE mem[a][p]
      /\ \A c \in Arrays : c # a => mem'[c] = mem[c]
  BY StoredContents
<1>2. size' \in [Arrays -> 0 .. Capacity]
  BY Zenon DEF BridgeInv, TypeOK
<1>3. \A c \in {IndexInput, ParamInput, PlanInput} : mem'[c] = mem[c]
  BY <1>1, ArrayNames, Zenon
<1>4. /\ \A b \in Bridges : call # <<"link", b>> /\ call # <<"start", b>> /\ call # <<"finish", b>>
      /\ call # <<"construct", "executor">> /\ call # <<"generate", "txns">>
  <2>1. call[1] \notin {"construct", "generate"}
    OBVIOUS
  <2>2. QED
    BY <2>1, CallNames, Zenon
<1>5. /\ TypeOK' /\ PointersSet' /\ BridgesLinked' /\ ExecutorLinked'
      /\ CopiesInTheirPhase' /\ CopiedOrPending' /\ epoch' = epoch
      /\ \A c : Past(c)' <=> Past(c) \/ c = call
      /\ \A e : End(e)' = End(e) /\ Extent(e)' = Extent(e)
  BY <1>1, <1>2, <1>3, <1>4, QuietStep, Zenon
<1>6. \A c \in TxnArrays : mem'[c] = mem[c] /\ size'[c] = size[c]
  BY <1>1, ArrayNames
<1>7. TxnsGenerated'
  BY <1>4, <1>5, <1>6, ContentsKept, Zenon
<1>8. QED
  BY <1>1, <1>5, <1>7, Zenon DEF AllButOutputs

LEMMA WriteCalls ==
  /\ \A c \in {<<"build", "index_output">>, <<"build", "initialization_output">>,
               <<"index", "txns">>, <<"initialize", "plan">>} :
       c[1] \in {"build", "index", "initialize"}
  /\ IndexOutput \in {IndexOutput, InitOutput} /\ InitOutput \in {IndexOutput, InitOutput}
OBVIOUS

LEMMA BuildStep ==
  ASSUME BridgeInv, BuildPackedTxnArray
  PROVE  BridgeInv'
<1>1. /\ AtPhase("build") /\ Proceed
      /\ UNCHANGED <<packed, executionDevice, store, size, held, bridge>>
      /\ ~ AtPhase("execute")
  BY DEF BuildPackedTxnArray, AtPhase
<1>2. /\ packed \in BOOLEAN /\ pc \in 1 .. Len(Program) + 1 /\ epoch \in Epochs
      /\ IndexOutput \in Arrays /\ InitOutput \in Arrays
      /\ IndexOutput # InitOutput /\ InitOutput # IndexOutput
  BY ArrayNames, Zenon DEF BridgeInv, TypeOK
<1>3. /\ <<"param", epoch>> \in Kinds \X Epochs /\ <<"plan", epoch>> \in Kinds \X Epochs
      /\ Extent(<<"param", epoch>>) \subseteq Parts /\ Extent(<<"plan", epoch>>) \subseteq Parts
      /\ IndexPart \in Parts
  BY <1>2, DataOfEpoch, Extents, Zenon DEF Kinds
<1>4. CASE At(<<"build", "index_output">>)
  <2>1. mem' = Stored(IndexOutput, {IndexPart}, <<"param", epoch>>)
    BY <1>4, Zenon DEF BuildPackedTxnArray
  <2>2. /\ AllButOutputs'
        /\ epoch' = epoch
        /\ \A c : Past(c)' <=> Past(c) \/ c = <<"build", "index_output">>
        /\ \A e : End(e)' = End(e) /\ Extent(e)' = Extent(e)
        /\ \A p \in Parts : mem'[IndexOutput][p] =
                              IF p \in {IndexPart} THEN <<"param", epoch>> ELSE mem[IndexOutput][p]
        /\ \A c \in Arrays : c # IndexOutput => mem'[c] = mem[c]
    BY <1>1, <1>2, <1>3, <1>4, <2>1, WriteCalls, WriteStep, Zenon
  <2>3. OutputsWritten'
    <3>1. /\ <<"build", "index_output">> # <<"build", "initialization_output">>
          /\ <<"build", "index_output">> # <<"index", "txns">>
          /\ <<"build", "index_output">> # <<"initialize", "plan">>
      OBVIOUS
    <3>2. QED
      BY <1>2, <1>3, <2>2, <3>1, Zenon DEF BridgeInv, OutputsWritten
  <2>4. QED
    BY <2>2, <2>3, Zenon DEF BridgeInv, AllButOutputs
<1>5. CASE At(<<"build", "initialization_output">>)
  <2>1. mem' = Stored(InitOutput, {IndexPart}, <<"plan", epoch>>)
    BY <1>2, <1>5, PhaseCalls, Zenon DEF BuildPackedTxnArray
  <2>2. /\ AllButOutputs'
        /\ epoch' = epoch
        /\ \A c : Past(c)' <=> Past(c) \/ c = <<"build", "initialization_output">>
        /\ \A e : End(e)' = End(e) /\ Extent(e)' = Extent(e)
        /\ \A p \in Parts : mem'[InitOutput][p] =
                              IF p \in {IndexPart} THEN <<"plan", epoch>> ELSE mem[InitOutput][p]
        /\ \A c \in Arrays : c # InitOutput => mem'[c] = mem[c]
    <3>1. /\ <<"build", "initialization_output">>[1] \in {"build", "index", "initialize"}
          /\ InitOutput \in {IndexOutput, InitOutput}
      OBVIOUS
    <3>2. QED
      BY <1>1, <1>3, <1>5, <2>1, <3>1, WriteStep
  <2>3. OutputsWritten'
    <3>1. /\ <<"build", "initialization_output">> # <<"build", "index_output">>
          /\ <<"build", "initialization_output">> # <<"index", "txns">>
          /\ <<"build", "initialization_output">> # <<"initialize", "plan">>
      OBVIOUS
    <3>2. QED
      BY <1>2, <1>3, <2>2, <3>1, Zenon DEF BridgeInv, OutputsWritten
  <2>4. QED
    BY <2>2, <2>3, Zenon DEF BridgeInv, AllButOutputs
<1>6. QED
  BY <1>1, <1>2, <1>4, <1>5, PhaseCalls, Zenon

(* A phase writes all of its array: where the index says, if it has one.   *)
LEMMA WrittenParts ==
  ASSUME BridgeInv, NEW a \in {IndexOutput, InitOutput}, NEW d \in Kinds \X Epochs,
         packed => mem[a][IndexPart] = d
  PROVE  \A p \in Extent(d) : p \in Written(a) \/ mem[a][p] = d
<1>1. store[a] = a /\ packed \in BOOLEAN
  BY Zenon DEF BridgeInv, PointersSet, OwnMemory, TypeOK
<1>2. CASE packed
  BY <1>1, <1>2, Extents, Zenon DEF Written
<1>3. CASE ~ packed
  BY <1>1, <1>3, Extents, Zenon DEF Written
<1>4. QED
  BY <1>1, <1>2, <1>3, Zenon

LEMMA IndexStep ==
  ASSUME BridgeInv, IndexTxns
  PROVE  BridgeInv'
<1>1. /\ AtPhase("index") /\ Proceed
      /\ UNCHANGED <<packed, executionDevice, store, size, held, bridge>>
      /\ ~ AtPhase("execute")
      /\ mem' = Stored(IndexOutput, Written(IndexOutput), <<"param", epoch>>)
  BY DEF IndexTxns, AtPhase
<1>2. /\ packed \in BOOLEAN /\ pc \in 1 .. Len(Program) + 1 /\ epoch \in Epochs
      /\ InitOutput \in Arrays /\ InitOutput # IndexOutput
  BY ArrayNames, Zenon DEF BridgeInv, TypeOK
<1>3. /\ <<"param", epoch>> \in Kinds \X Epochs
      /\ Extent(<<"param", epoch>>) \subseteq Parts /\ IndexPart \in Parts
  BY <1>2, DataOfEpoch, Extents, Zenon DEF Kinds
<1>4. At(<<"index", "txns">>) /\ (packed => mem[IndexOutput][IndexPart] = <<"param", epoch>>)
  BY <1>1, <1>2, PhaseCalls, PhaseOrder, Zenon DEF BridgeInv, OutputsWritten
<1>5. /\ AllButOutputs'
      /\ epoch' = epoch
      /\ \A c : Past(c)' <=> Past(c) \/ c = <<"index", "txns">>
      /\ \A e : End(e)' = End(e) /\ Extent(e)' = Extent(e)
      /\ \A p \in Parts : mem'[IndexOutput][p] =
                            IF p \in Written(IndexOutput) THEN <<"param", epoch>> ELSE mem[IndexOutput][p]
      /\ \A c \in Arrays : c # IndexOutput => mem'[c] = mem[c]
  <2>1. /\ <<"index", "txns">>[1] \in {"build", "index", "initialize"}
        /\ IndexOutput \in {IndexOutput, InitOutput}
    OBVIOUS
  <2>2. QED
    BY <1>1, <1>2, <1>3, <1>4, <2>1, WriteStep, Zenon
<1>6. \A p \in Extent(<<"param", epoch>>) : mem'[IndexOutput][p] = <<"param", epoch>>
  BY <1>3, <1>4, <1>5, WrittenParts, Zenon
<1>7. OutputsWritten'
  <2>1. /\ <<"index", "txns">> # <<"build", "index_output">>
        /\ <<"index", "txns">> # <<"build", "initialization_output">>
        /\ <<"index", "txns">> # <<"initialize", "plan">>
    OBVIOUS
  <2>2. QED
    BY <1>2, <1>3, <1>5, <1>6, <2>1, Zenon DEF BridgeInv, OutputsWritten
<1>8. QED
  BY <1>5, <1>7, Zenon DEF BridgeInv, AllButOutputs

LEMMA InitializeStep ==
  ASSUME BridgeInv, InitializePlan
  PROVE  BridgeInv'
<1>1. /\ AtPhase("initialize") /\ Proceed
      /\ UNCHANGED <<packed, executionDevice, store, size, held, bridge>>
      /\ ~ AtPhase("execute")
      /\ mem' = Stored(InitOutput, Written(InitOutput), <<"plan", epoch>>)
  BY DEF InitializePlan, AtPhase
<1>2. /\ packed \in BOOLEAN /\ pc \in 1 .. Len(Program) + 1 /\ epoch \in Epochs
      /\ IndexOutput \in Arrays /\ IndexOutput # InitOutput
  BY ArrayNames, Zenon DEF BridgeInv, TypeOK
<1>3. /\ <<"plan", epoch>> \in Kinds \X Epochs
      /\ Extent(<<"plan", epoch>>) \subseteq Parts /\ IndexPart \in Parts
  BY <1>2, DataOfEpoch, Extents, Zenon DEF Kinds
<1>4. At(<<"initialize", "plan">>) /\ (packed => mem[InitOutput][IndexPart] = <<"plan", epoch>>)
  BY <1>1, <1>2, PhaseCalls, PhaseOrder, Zenon DEF BridgeInv, OutputsWritten
<1>5. /\ AllButOutputs'
      /\ epoch' = epoch
      /\ \A c : Past(c)' <=> Past(c) \/ c = <<"initialize", "plan">>
      /\ \A e : End(e)' = End(e) /\ Extent(e)' = Extent(e)
      /\ \A p \in Parts : mem'[InitOutput][p] =
                            IF p \in Written(InitOutput) THEN <<"plan", epoch>> ELSE mem[InitOutput][p]
      /\ \A c \in Arrays : c # InitOutput => mem'[c] = mem[c]
  BY <1>1, <1>2, <1>3, <1>4, WriteCalls, WriteStep, Zenon
<1>6. \A p \in Extent(<<"plan", epoch>>) : mem'[InitOutput][p] = <<"plan", epoch>>
  BY <1>3, <1>4, <1>5, WrittenParts, Zenon
<1>7. OutputsWritten'
  <2>1. /\ <<"initialize", "plan">> # <<"build", "index_output">>
        /\ <<"initialize", "plan">> # <<"build", "initialization_output">>
        /\ <<"initialize", "plan">> # <<"index", "txns">>
    OBVIOUS
  <2>2. QED
    BY <1>2, <1>3, <1>5, <1>6, <2>1, Zenon DEF BridgeInv, OutputsWritten
<1>8. QED
  BY <1>5, <1>7, Zenon DEF BridgeInv, AllButOutputs

LEMMA GenerateStep ==
  ASSUME BridgeInv, GenerateTxns
  PROVE  BridgeInv'
<1>1. /\ AtPhase("generate") /\ Proceed
      /\ UNCHANGED <<packed, executionDevice, store, held, bridge>>
      /\ ~ AtPhase("execute")
  BY DEF GenerateTxns, AtPhase
<1>2. /\ packed \in BOOLEAN /\ pc \in 1 .. Len(Program) + 1
      /\ mem \in [Arrays -> [Parts -> {Zeroed} \cup (Kinds \X Epochs)]]
      /\ size \in [Arrays -> 0 .. Capacity]
  BY Zenon DEF BridgeInv, TypeOK
<1>3. At(<<"generate", "txns">>)
  BY <1>1, <1>2, PhaseCalls, Zenon
<1>4. \A e \in Epochs : <<"txn", e>> \in Kinds \X Epochs
  BY DEF Kinds
<1>5. mem' \in [Arrays -> [Parts -> {Zeroed} \cup (Kinds \X Epochs)]]
  <2>1. \A a \in TxnArrays : a[2] \in Epochs
    BY ArrayNames, Zenon
  <2>2. QED
    BY <1>2, <1>4, <2>1 DEF GenerateTxns
<1>6. size' \in [Arrays -> 0 .. Capacity]
  <2>1. \A a \in TxnArrays : End(<<"txn", a[2]>>) \in 0 .. Capacity
    BY <1>2, <1>4, ArrayNames, Extents, Zenon
  <2>2. QED
    BY <1>2, <2>1 DEF GenerateTxns
<1>7. /\ \A b \in Bridges : /\ <<"generate", "txns">> # <<"link", b>>
                            /\ <<"generate", "txns">> # <<"start", b>>
                            /\ <<"generate", "txns">> # <<"finish", b>>
      /\ <<"generate", "txns">> # <<"construct", "executor">>
      /\ <<"generate", "txns">> # <<"build", "index_output">>
      /\ <<"generate", "txns">> # <<"build", "initialization_output">>
      /\ <<"generate", "txns">> # <<"index", "txns">>
      /\ <<"generate", "txns">> # <<"initialize", "plan">>
  OBVIOUS
<1>8. /\ TypeOK' /\ PointersSet' /\ BridgesLinked' /\ ExecutorLinked'
      /\ CopiesInTheirPhase' /\ CopiedOrPending' /\ epoch' = epoch
      /\ \A c : Past(c)' <=> Past(c) \/ c = <<"generate", "txns">>
      /\ \A d : End(d)' = End(d) /\ Extent(d)' = Extent(d)
  BY <1>1, <1>3, <1>5, <1>6, <1>7, QuietStep, Zenon
<1>9. ASSUME NEW e \in Epochs
      PROVE  /\ packed => size'[TxnArray(e)] = End(<<"txn", e>>)
             /\ \A p \in Extent(<<"txn", e>>) : mem'[TxnArray(e)][p] = <<"txn", e>>
  <2>1. TxnArray(e) \in TxnArrays /\ TxnArray(e) \in Arrays /\ TxnArray(e)[2] = e
    BY ArrayNames, Zenon
  <2>2. packed => size'[TxnArray(e)] = End(<<"txn", e>>)
    BY <2>1 DEF GenerateTxns
  <2>3. mem'[TxnArray(e)] =
          [p \in Parts |-> IF p \in Extent(<<"txn", e>>) THEN <<"txn", e>> ELSE Zeroed]
    BY <2>1 DEF GenerateTxns
  <2>4. Extent(<<"txn", e>>) \subseteq Parts
    BY <1>2, <1>4, Extents, Zenon
  <2>5. QED
    BY <2>2, <2>3, <2>4
<1>10. TxnsGenerated'
  <2>1. \A e : TxnArray(e)' = TxnArray(e)
    BY Zenon DEF TxnArray
  <2>2. QED
    BY <1>1, <1>8, <1>9, <2>1, Zenon DEF TxnsGenerated
<1>11. OutputsWritten'
  <2>1. mem'[IndexOutput] = mem[IndexOutput] /\ mem'[InitOutput] = mem[InitOutput]
    BY ArrayNames DEF GenerateTxns
  <2>2. QED
    BY <1>1, <1>7, <1>8, <2>1, Zenon DEF BridgeInv, OutputsWritten
<1>12. QED
  BY <1>8, <1>10, <1>11, Zenon DEF BridgeInv

LEMMA ConstructStep ==
  ASSUME BridgeInv, ConstructExecutor
  PROVE  BridgeInv'
<1>1. /\ AtPhase("construct") /\ Proceed /\ ~ AtPhase("execute")
      /\ UNCHANGED <<packed, executionDevice, store, size, mem, bridge>>
  BY DEF ConstructExecutor, AtPhase
<1>2. packed \in BOOLEAN /\ pc \in 1 .. Len(Program) + 1
  BY Zenon DEF BridgeInv, TypeOK
<1>3. At(<<"construct", "executor">>)
  BY <1>1, <1>2, PhaseCalls, Zenon
<1>4. /\ pc' = pc + 1 /\ epoch' = epoch /\ epoch' \in Epochs /\ (pc \in 1 .. Len(Program) + 1)'
      /\ \A c : Past(c)' <=> Past(c) \/ c = <<"construct", "executor">>
  BY <1>1, <1>3, CallStep, Zenon DEF BridgeInv
<1>5. /\ \A b \in Bridges : /\ <<"construct", "executor">> # <<"link", b>>
                            /\ <<"construct", "executor">> # <<"start", b>>
                            /\ <<"construct", "executor">> # <<"finish", b>>
      /\ <<"construct", "executor">> # <<"generate", "txns">>
      /\ <<"construct", "executor">> # <<"build", "index_output">>
      /\ <<"construct", "executor">> # <<"build", "initialization_output">>
      /\ <<"construct", "executor">> # <<"index", "txns">>
      /\ <<"construct", "executor">> # <<"initialize", "plan">>
  OBVIOUS
<1>6. \A a \in {ParamInput, PlanInput} :
        held'[a] = [store |-> store[a], size |-> size[a]] /\ store[a] = Target(a)
  <2>1. store[ParamInput] = Target(ParamInput) /\ store[PlanInput] = Target(PlanInput)
    BY <1>2, <1>3, Order, EndsPaired, Zenon DEF BridgeInv, PointersSet, Bridges
  <2>2. \A a \in {ParamInput, PlanInput} : held'[a] = View(a)
    BY Zenon DEF ConstructExecutor
  <2>3. QED
    BY <2>1, <2>2, Zenon DEF View
<1>7. TypeOK'
  <2>1. held' \in [{ParamInput, PlanInput} -> [store : Arrays \cup {Null}, size : 0 .. Capacity]]
    <3>1. \A a \in {ParamInput, PlanInput} :
            View(a) \in [store : Arrays \cup {Null}, size : 0 .. Capacity]
      BY ArrayNames DEF View, BridgeInv, TypeOK
    <3>2. QED
      BY <3>1, Zenon DEF ConstructExecutor
  <2>2. QED
    BY <1>1, <1>4, <2>1, Zenon DEF BridgeInv, TypeOK, Device
<1>8. /\ \A b \in Bridges : Ends(b)' = Ends(b) /\ (Crosses(b)' <=> Crosses(b))
      /\ \A a : Target(a)' = Target(a)
      /\ \A d : End(d)' = End(d) /\ Extent(d)' = Extent(d)
      /\ \A b : Carried(b)' = Carried(b)
  BY <1>1, <1>4, EndsKept, DataKept, Zenon DEF Crosses, Device, Target, OwnMemory
<1>9. \A b \in Bridges : Relinked(b)' <=> Relinked(b)
  <2>1. ~ At(<<"link", "input">>)
    BY <1>3, <1>5, Zenon DEF At, Bridges
  <2>2. QED
    BY <1>2, <1>4, <1>5, <2>1, RelinkedKept, Zenon
<1>10. PointersSet' /\ BridgesLinked'
  BY <1>1, <1>4, <1>5, <1>8, <1>9, Zenon DEF BridgeInv, PointersSet, BridgesLinked, OwnMemory
<1>11. ExecutorLinked'
  <2>1. \A a \in {ParamInput, PlanInput} : held'[a].store = Target(a)
    BY <1>6
  <2>2. QED
    BY <1>8, <2>1, Zenon DEF ExecutorLinked
<1>12. CopiesInTheirPhase' /\ CopiedOrPending'
  BY <1>1, <1>4, <1>5, <1>8, Zenon DEF BridgeInv, CopiesInTheirPhase, CopiedOrPending
<1>13. TxnsGenerated' /\ OutputsWritten'
  BY <1>1, <1>4, <1>5, <1>8, ContentsKept, Zenon
<1>14. QED
  BY <1>7, <1>10, <1>11, <1>12, <1>13, Zenon DEF BridgeInv

(* The last phase is the end of a round.                                   *)
LEMMA LastPhase ==
  ASSUME packed \in BOOLEAN, pc \in 1 .. Len(Program) + 1, AtPhase("execute")
  PROVE  /\ pc = Len(Program) /\ Past(<<"generate", "txns">>)
         /\ Past(<<"construct", "executor">>)
         /\ \A b \in Bridges : Past(<<"finish", b>>) /\ Past(<<"link", b>>) /\ Relinked(b)
<1> DEFINE Claim(b) == Past(<<"finish", b>>) /\ Past(<<"link", b>>) /\ Relinked(b)
<1>1. At(<<"execute", "txns">>) /\ Len(Before) = 6
  BY PhaseCalls, ProgramLength, Zenon
<1>2. CASE packed
  <2>1. pc = 21 /\ Len(Program) = 21
    BY <1>1, <1>2, TpccPlaces, TpccProgram, Zenon
  <2>2. Claim("input") /\ Claim("init") /\ Claim("param") /\ Claim("plan")
    BY <1>1, <1>2, <2>1, TpccPlaces, SMT DEF Relinked
  <2>3. Past(<<"generate", "txns">>) /\ Past(<<"construct", "executor">>)
    BY <1>2, <2>1, TpccPlaces, SMT
  <2>4. QED
    BY <2>1, <2>2, <2>3, Zenon DEF Bridges
<1>3. CASE ~ packed
  <2>1. pc = 19 /\ Len(Program) = 19
    BY <1>1, <1>3, YcsbPlaces, YcsbProgram, Zenon
  <2>2. Claim("input") /\ Claim("init") /\ Claim("param") /\ Claim("plan")
    BY <1>1, <1>3, <2>1, YcsbPlaces, SMT DEF Relinked
  <2>3. Past(<<"generate", "txns">>) /\ Past(<<"construct", "executor">>)
    BY <1>3, <2>1, YcsbPlaces, SMT
  <2>4. QED
    BY <2>1, <2>2, <2>3, Zenon DEF Bridges
<1>4. QED
  BY <1>2, <1>3, Zenon

(* The next round finds the links and the transactions, and no copy.       *)
LEMMA ExecuteStep ==
  ASSUME BridgeInv, SubmitOrExecute, AtPhase("execute")
  PROVE  BridgeInv'
<1>1. /\ Proceed /\ UNCHANGED <<packed, executionDevice, store, size, mem, bridge, held>>
  BY Zenon DEF SubmitOrExecute
<1>2. packed \in BOOLEAN /\ pc \in 1 .. Len(Program) + 1 /\ epoch \in Epochs
  BY Zenon DEF BridgeInv, TypeOK
<1>3. /\ pc = Len(Program) /\ At(<<"execute", "txns">>)
      /\ Past(<<"generate", "txns">>) /\ Past(<<"construct", "executor">>)
      /\ \A b \in Bridges : Past(<<"finish", b>>) /\ Past(<<"link", b>>) /\ Relinked(b)
  BY <1>2, LastPhase, PhaseCalls, Zenon
<1>4. \A b \in Bridges : bridge[b].pending = {}
  BY <1>3, Zenon DEF BridgeInv, CopiesInTheirPhase
<1>5. /\ \A b \in Bridges : Ends(b)'[2] = Ends(b)[2] /\ (b # "input" => Ends(b)' = Ends(b))
      /\ \A a : Target(a)' = Target(a) /\ OwnMemory(a)' = OwnMemory(a)
      /\ \A d : End(d)' = End(d) /\ Extent(d)' = Extent(d)
      /\ \A e : TxnArray(e)' = TxnArray(e)
      /\ Program' = Program
  BY <1>1, EndsKept, DataKept DEF Target, OwnMemory, TxnArray, Program, Before, YcsbRound, TpccRound
<1>6. CASE epoch < MaxEpoch
  <2>1. epoch' = epoch + 1 /\ pc' = Len(Before) + 1
    BY <1>3, <1>6, Zenon DEF Proceed, SubmitOrExecute
  <2>2. /\ \A b \in Bridges : /\ Past(<<"link", b>>)'
                              /\ ~ Past(<<"start", b>>)' /\ ~ Past(<<"finish", b>>)'
        /\ Past(<<"construct", "executor">>)' /\ Past(<<"generate", "txns">>)'
        /\ ~ Past(<<"build", "index_output">>)' /\ ~ Past(<<"build", "initialization_output">>)'
        /\ ~ Past(<<"index", "txns">>)' /\ ~ Past(<<"initialize", "plan">>)'
    BY <1>1, <1>2, <2>1, NextRound, Zenon
  <2>3. epoch' \in Epochs /\ (pc \in 1 .. Len(Program) + 1)' /\ ~ (pc' > Len(Before)' + 1)
    <3>1. epoch' \in Epochs
      BY <1>2, <1>6, <2>1, BridgeAssumption, SMT DEF Epochs
    <3>2. Len(Before)' = Len(Before)
      BY DEF Before
    <3>3. pc' = 7 /\ Len(Before) = 6
      <4>1. Len(Before) = 6 /\ pc' = 6 + 1
        BY <1>2, <2>1, ProgramLength, Zenon
      <4>2. 6 + 1 = 7
        BY SMT
      <4>3. QED
        BY <4>1, <4>2, Zenon
    <3>4. \A n : n \in Nat /\ n > 6 => 7 \in 1 .. n + 1 /\ ~ (7 > 6 + 1)
      BY SMT
    <3>5. QED
      BY <1>2, <1>5, <3>1, <3>2, <3>3, <3>4, ProgramLength, Zenon
  <2>4. TypeOK'
    BY <1>1, <2>3, Zenon DEF BridgeInv, TypeOK, Device
  <2>5. PointersSet' /\ ExecutorLinked'
    BY <1>1, <1>3, <1>5, <2>2, Zenon DEF BridgeInv, PointersSet, ExecutorLinked
  <2>6. BridgesLinked'
    BY <1>1, <1>3, <1>5, <2>3, Zenon DEF BridgeInv, BridgesLinked, Relinked
  <2>7. CopiesInTheirPhase' /\ CopiedOrPending'
    BY <1>1, <1>4, <2>2, Zenon DEF CopiesInTheirPhase, CopiedOrPending
  <2>8. TxnsGenerated' /\ OutputsWritten'
    BY <1>1, <1>3, <1>5, <2>2, Zenon DEF BridgeInv, TxnsGenerated, OutputsWritten
  <2>9. QED
    BY <2>4, <2>5, <2>6, <2>7, <2>8, Zenon DEF BridgeInv
<1>7. CASE ~ (epoch < MaxEpoch)
  <2>1. epoch' = epoch /\ pc' = pc + 1
    BY <1>1, <1>7, Zenon DEF Proceed
  <2>2. /\ \A c : Past(c)' <=> Past(c) \/ c = <<"execute", "txns">>
        /\ \A b \in Bridges : Ends(b)' = Ends(b) /\ Carried(b)' = Carried(b)
        /\ \A b \in Bridges : Crosses(b)' <=> Crosses(b)
    BY <1>1, <1>2, <1>3, <2>1, NextCall, EndsKept, DataKept, Zenon DEF Crosses, Device
  <2>3. /\ \A b \in Bridges : /\ <<"execute", "txns">> # <<"link", b>>
                              /\ <<"execute", "txns">> # <<"start", b>>
                              /\ <<"execute", "txns">> # <<"finish", b>>
        /\ <<"execute", "txns">> # <<"build", "index_output">>
        /\ <<"execute", "txns">> # <<"build", "initialization_output">>
        /\ <<"execute", "txns">> # <<"index", "txns">>
        /\ <<"execute", "txns">> # <<"initialize", "plan">>
    OBVIOUS
  <2>4. epoch' \in Epochs /\ (pc \in 1 .. Len(Program) + 1)'
    <3>1. \A n : n \in Nat => n + 1 \in 1 .. n + 1
      BY SMT
    <3>2. QED
      BY <1>2, <1>3, <1>5, <2>1, <3>1, ProgramLength, Zenon
  <2>5. TypeOK'
    BY <1>1, <2>4, Zenon DEF BridgeInv, TypeOK, Device
  <2>6. PointersSet' /\ ExecutorLinked' /\ BridgesLinked'
    BY <1>1, <1>3, <1>5, <2>2, <2>3, Zenon DEF BridgeInv, PointersSet, ExecutorLinked, BridgesLinked
  <2>7. CopiesInTheirPhase' /\ CopiedOrPending'
    BY <1>1, <1>5, <2>2, <2>3, Zenon DEF BridgeInv, CopiesInTheirPhase, CopiedOrPending
  <2>8. TxnsGenerated' /\ OutputsWritten'
    BY <1>1, <1>3, <1>5, <2>1, <2>2, <2>3, Zenon DEF BridgeInv, TxnsGenerated, OutputsWritten
  <2>9. QED
    BY <2>5, <2>6, <2>7, <2>8, Zenon DEF BridgeInv
<1>8. QED
  BY <1>6, <1>7, Zenon

(* What depends on the place in the program only.                          *)
LEMMA PlaceKept ==
  ASSUME UNCHANGED <<packed, executionDevice, epoch, pc>>
  PROVE  /\ \A c : Past(c)' <=> Past(c)
         /\ \A b \in Bridges : Relinked(b)' <=> Relinked(b)
         /\ \A b \in Bridges : Ends(b)' = Ends(b) /\ Carried(b)' = Carried(b)
         /\ \A a : Target(a)' = Target(a) /\ OwnMemory(a)' = OwnMemory(a) /\ Device(a)' = Device(a)
         /\ \A d : End(d)' = End(d) /\ Extent(d)' = Extent(d)
         /\ \A e : TxnArray(e)' = TxnArray(e)
         /\ Program' = Program
<1>1. UNCHANGED <<packed, executionDevice>> /\ epoch' = epoch /\ pc' = pc
  OBVIOUS
<1>2. /\ \A b \in Bridges : Ends(b)' = Ends(b) /\ Carried(b)' = Carried(b)
      /\ \A a : Target(a)' = Target(a) /\ OwnMemory(a)' = OwnMemory(a) /\ Device(a)' = Device(a)
      /\ \A d : End(d)' = End(d) /\ Extent(d)' = Extent(d)
      /\ \A e : TxnArray(e)' = TxnArray(e)
      /\ Program' = Program
  BY <1>1, EndsKept, DataKept DEF Target, OwnMemory, TxnArray, Program, Before, YcsbRound,
     TpccRound, Device
<1>3. \A c : Past(c)' <=> Past(c)
  BY <1>1, <1>2, Zenon DEF Past
<1>4. \A b \in Bridges : Relinked(b)' <=> Relinked(b)
  <2>1. Len(Before)' = Len(Before)
    BY DEF Before
  <2>2. QED
    BY <1>1, <1>3, <2>1, Zenon DEF Relinked
<1>5. QED
  BY <1>2, <1>3, <1>4, Zenon

(* Nothing depends on more than the variables.                             *)
LEMMA StutterStep ==
  ASSUME BridgeInv, UNCHANGED vars
  PROVE  BridgeInv'
<1>1. /\ UNCHANGED <<packed, executionDevice, epoch, pc>>
      /\ UNCHANGED <<store, size, mem, bridge, held>> /\ epoch' = epoch /\ pc' = pc
  BY DEF vars
<1>2. /\ \A c : Past(c)' <=> Past(c)
      /\ \A b \in Bridges : Relinked(b)' <=> Relinked(b)
      /\ \A b \in Bridges : Ends(b)' = Ends(b) /\ Carried(b)' = Carried(b)
      /\ \A a : Target(a)' = Target(a) /\ OwnMemory(a)' = OwnMemory(a) /\ Device(a)' = Device(a)
      /\ \A d : End(d)' = End(d) /\ Extent(d)' = Extent(d)
      /\ \A e : TxnArray(e)' = TxnArray(e)
      /\ Program' = Program
  BY <1>1, PlaceKept, Zenon
<1>3. \A b \in Bridges : Crosses(b)' <=> Crosses(b)
  BY <1>1, <1>2, Zenon DEF Crosses
<1>4. TypeOK'
  BY <1>1, <1>2, Zenon DEF BridgeInv, TypeOK
<1>5. PointersSet' /\ ExecutorLinked' /\ BridgesLinked'
  BY <1>1, <1>2, Zenon DEF BridgeInv, PointersSet, ExecutorLinked, BridgesLinked
<1>6. CopiesInTheirPhase' /\ CopiedOrPending'
  BY <1>1, <1>2, <1>3, Zenon DEF BridgeInv, CopiesInTheirPhase, CopiedOrPending
<1>7. TxnsGenerated' /\ OutputsWritten'
  BY <1>1, <1>2, Zenon DEF BridgeInv, TxnsGenerated, OutputsWritten
<1>8. QED
  BY <1>4, <1>5, <1>6, <1>7, Zenon DEF BridgeInv

(* The second array of a bridge is on the first's device, or has memory of *)
(* its own.                                                                *)
LEMMA LinkTarget ==
  ASSUME TypeOK, NEW b \in Bridges
  PROVE  /\ Ends(b)[1] \in TxnArrays \cup {IndexOutput, InitOutput}
         /\ Ends(b)[2] \in {IndexInput, InitInput, ParamInput, PlanInput}
         /\ Ends(b)[1] \in Arrays /\ Ends(b)[2] \in Arrays /\ Ends(b)[1] # Ends(b)[2]
         /\ Target(Ends(b)[2]) = IF Device(Ends(b)[1]) = Device(Ends(b)[2])
                                 THEN Ends(b)[1] ELSE Ends(b)[2]
         /\ \A c \in Bridges : c # b => Ends(c)[2] # Ends(b)[2]
<1> DEFINE Claim(c) ==
             /\ Ends(c)[1] \in TxnArrays \cup {IndexOutput, InitOutput}
             /\ Ends(c)[2] \in {IndexInput, InitInput, ParamInput, PlanInput}
             /\ Ends(c)[1] \in Arrays /\ Ends(c)[2] \in Arrays /\ Ends(c)[1] # Ends(c)[2]
             /\ Target(Ends(c)[2]) = IF Device(Ends(c)[1]) = Device(Ends(c)[2])
                                     THEN Ends(c)[1] ELSE Ends(c)[2]
<1>1. /\ epoch \in Epochs /\ TxnArray(epoch) \in TxnArrays /\ executionDevice \in {"CPU", "GPU"}
      /\ TxnArray(epoch) \in Arrays /\ TxnArray(epoch) # IndexInput
      /\ Device(TxnArray(epoch)) = "CPU"
  BY ArrayNames, Devices, Zenon DEF TypeOK
<1>2. "CPU" # "GPU"
  OBVIOUS
<1>3. Claim("input")
  BY <1>1, <1>2, ArrayNames, Devices, EndsPaired, Zenon DEF Target, OwnMemory
<1>4. Claim("init")
  BY <1>1, ArrayNames, Devices, EndsPaired, Zenon DEF Target
<1>5. Claim("param")
  BY <1>1, <1>2, ArrayNames, Devices, EndsPaired, Zenon DEF Target, OwnMemory
<1>6. Claim("plan")
  BY <1>1, <1>2, ArrayNames, Devices, EndsPaired, Zenon DEF Target, OwnMemory
<1>7. Claim(b)
  BY <1>3, <1>4, <1>5, <1>6, ArrayNames, Zenon
<1>8. \A c \in Bridges : c # b => Ends(c)[2] # Ends(b)[2]
  <2>1. \A c \in Bridges : Ends(c)[2] = [input |-> IndexInput, init |-> InitInput,
                                        param |-> ParamInput, plan |-> PlanInput][c]
    BY EndsPaired DEF Bridges
  <2>2. QED
    BY <2>1, ArrayNames DEF Bridges
<1>9. QED
  BY <1>7, <1>8, Zenon

(* Link gives the second array its memory, and the bridge both pointers.   *)
LEMMA LinkedPointers ==
  ASSUME BridgeInv, NEW b \in Bridges, Link(b)
  PROVE  /\ store'[Ends(b)[2]] = Target(Ends(b)[2])
         /\ \A a \in Arrays : a # Ends(b)[2] => store'[a] = store[a]
         /\ store' \in [Arrays -> Arrays \cup {Null}]
         /\ bridge'[b].src = store'[Ends(b)[1]] /\ bridge'[b].dest = store'[Ends(b)[2]]
         /\ bridge'[b].from = Ends(b)[1] /\ bridge'[b].to = Ends(b)[2]
         /\ bridge'[b].pending = bridge[b].pending
         /\ \A c \in Bridges : c # b => bridge'[c] = bridge[c]
         /\ bridge' \in [Bridges -> [src : Arrays \cup {Null}, dest : Arrays \cup {Null},
                                     from : Arrays \cup {Null}, to : Arrays \cup {Null},
                                     pending : SUBSET Parts]]
<1> DEFINE from == Ends(b)[1]
           to == Ends(b)[2]
<1>1. /\ from \in TxnArrays \cup {IndexOutput, InitOutput} /\ from \in Arrays /\ to \in Arrays
      /\ from # to /\ Target(to) = IF Device(from) = Device(to) THEN from ELSE to
  BY LinkTarget, Zenon DEF BridgeInv
<1>2. store \in [Arrays -> Arrays \cup {Null}] /\ Null \notin Arrays
  BY ArrayNames, Zenon DEF BridgeInv, TypeOK
<1>3. store[from] = from /\ store[to] \in {Null, Target(to)}
  BY <1>1, Zenon DEF BridgeInv, PointersSet, OwnMemory
<1>4. Initialized(from) = from /\ (to = Target(to) => Initialized(to) = to)
  BY <1>1, <1>2, <1>3, Zenon DEF Initialized, OwnMemory
<1>5. store' = [store EXCEPT ![from] = from, ![to] = Target(to)]
  <2>1. (IF Device(from) = Device(to) THEN Initialized(from) ELSE Initialized(to)) = Target(to)
    BY <1>1, <1>4, Zenon
  <2>2. store' = [store EXCEPT ![from] = Initialized(from),
                    ![to] = IF Device(from) = Device(to) THEN Initialized(from) ELSE Initialized(to)]
    BY DEF Link, LinkedStore
  <2>3. QED
    BY <1>4, <2>1, <2>2
<1>6. /\ store'[to] = Target(to) /\ Target(to) \in Arrays
      /\ \A a \in Arrays : a # to => store'[a] = store[a]
      /\ store' \in [Arrays -> Arrays \cup {Null}]
  BY <1>1, <1>2, <1>3, <1>5
<1>7. bridge \in [Bridges -> [src : Arrays \cup {Null}, dest : Arrays \cup {Null},
                              from : Arrays \cup {Null}, to : Arrays \cup {Null},
                              pending : SUBSET Parts]]
  BY Zenon DEF BridgeInv, TypeOK
<1>8. bridge' = [bridge EXCEPT ![b].from = from, ![b].src = store'[from],
                               ![b].to = to, ![b].dest = store'[to]]
  BY Zenon DEF Link
<1>9. /\ bridge'[b].src = store'[from] /\ bridge'[b].dest = store'[to]
      /\ bridge'[b].from = from /\ bridge'[b].to = to
      /\ bridge'[b].pending = bridge[b].pending
  BY <1>7, <1>8
<1>10. \A c \in Bridges : c # b => bridge'[c] = bridge[c]
  BY <1>7, <1>8
<1>11. bridge' \in [Bridges -> [src : Arrays \cup {Null}, dest : Arrays \cup {Null},
                                from : Arrays \cup {Null}, to : Arrays \cup {Null},
                                pending : SUBSET Parts]]
  <2>1. store'[from] \in Arrays \cup {Null} /\ store'[to] \in Arrays \cup {Null}
    BY <1>1, <1>6
  <2>2. /\ from \in Arrays \cup {Null} /\ to \in Arrays \cup {Null}
        /\ [bridge[b] EXCEPT !.from = from, !.src = store'[from], !.to = to, !.dest = store'[to]]
             \in [src : Arrays \cup {Null}, dest : Arrays \cup {Null},
                  from : Arrays \cup {Null}, to : Arrays \cup {Null}, pending : SUBSET Parts]
    BY <1>1, <1>7, <2>1
  <2>3. bridge' = [bridge EXCEPT ![b] =
                     [bridge[b] EXCEPT !.from = from, !.src = store'[from], !.to = to, !.dest = store'[to]]]
    BY <1>7, <1>8
  <2>4. QED
    BY <1>7, <2>2, <2>3
<1>12. QED
  BY <1>6, <1>9, <1>10, <1>11, Zenon

LEMMA LinkStep ==
  ASSUME BridgeInv, NEW b \in Bridges, Link(b)
  PROVE  BridgeInv'
<1> DEFINE from == Ends(b)[1]
           to == Ends(b)[2]
<1>1. /\ At(<<"link", b>>) /\ Proceed
      /\ UNCHANGED <<packed, executionDevice, size, mem, held>>
  BY Zenon DEF Link
<1>2. ~ AtPhase("execute")
  BY <1>1, CallNames DEF At, AtPhase
<1>3. /\ packed \in BOOLEAN /\ pc \in 1 .. Len(Program) + 1
      /\ pc' = pc + 1 /\ epoch' = epoch /\ epoch' \in Epochs /\ (pc \in 1 .. Len(Program) + 1)'
      /\ \A c : Past(c)' <=> Past(c) \/ c = <<"link", b>>
  BY <1>1, <1>2, CallStep, Zenon DEF BridgeInv, TypeOK
<1>4. /\ store'[to] = Target(to)
      /\ \A a \in Arrays : a # to => store'[a] = store[a]
      /\ store' \in [Arrays -> Arrays \cup {Null}]
      /\ bridge'[b].src = store'[from] /\ bridge'[b].dest = store'[to]
      /\ bridge'[b].from = from /\ bridge'[b].to = to
      /\ bridge'[b].pending = bridge[b].pending
      /\ \A c \in Bridges : c # b => bridge'[c] = bridge[c]
      /\ bridge' \in [Bridges -> [src : Arrays \cup {Null}, dest : Arrays \cup {Null},
                                  from : Arrays \cup {Null}, to : Arrays \cup {Null},
                                  pending : SUBSET Parts]]
  BY LinkedPointers, Zenon
<1>5. /\ bridge'[b].src = store'[from] /\ bridge'[b].dest = store'[to]
      /\ bridge'[b].from = from /\ bridge'[b].to = to
      /\ bridge'[b].pending = {}
  <2>1. bridge[b].pending = {}
    BY <1>1, <1>3, Order, Zenon DEF BridgeInv, CopiesInTheirPhase
  <2>2. QED
    BY <1>4, <2>1
<1>6. /\ \A c \in Bridges : Ends(c)' = Ends(c) /\ Carried(c)' = Carried(c)
      /\ \A a : Target(a)' = Target(a) /\ OwnMemory(a)' = OwnMemory(a) /\ Device(a)' = Device(a)
      /\ \A d : End(d)' = End(d) /\ Extent(d)' = Extent(d)
  BY <1>1, <1>3, EndsKept, DataKept, Zenon DEF Target, OwnMemory, Device
<1>7. /\ \A c \in Bridges : /\ Ends(c)[1] \in TxnArrays \cup {IndexOutput, InitOutput}
                            /\ Ends(c)[1] \in Arrays /\ Ends(c)[2] \in Arrays
                            /\ Ends(c)[1] # to /\ (c # b => Ends(c)[2] # to)
      /\ \A a \in TxnArrays \cup {IndexOutput, InitOutput} : a \in Arrays /\ a # to
  <2>1. /\ to \in {IndexInput, InitInput, ParamInput, PlanInput}
        /\ \A c \in Bridges : c # b => Ends(c)[2] # to
    BY LinkTarget, Zenon DEF BridgeInv
  <2>2. \A a \in TxnArrays \cup {IndexOutput, InitOutput} : a \in Arrays /\ a # to
    BY <2>1, ArrayNames, Zenon
  <2>3. \A c \in Bridges : /\ Ends(c)[1] \in TxnArrays \cup {IndexOutput, InitOutput}
                           /\ Ends(c)[1] \in Arrays /\ Ends(c)[2] \in Arrays
    BY LinkTarget, Zenon DEF BridgeInv
  <2>4. QED
    BY <2>1, <2>2, <2>3, Zenon
<1>8. /\ \A c \in Bridges : /\ Past(<<"link", c>>)' <=> Past(<<"link", c>>) \/ c = b
                            /\ Past(<<"start", c>>)' <=> Past(<<"start", c>>)
                            /\ Past(<<"finish", c>>)' <=> Past(<<"finish", c>>)
      /\ Past(<<"construct", "executor">>)' <=> Past(<<"construct", "executor">>)
      /\ \A c \in {<<"generate", "txns">>, <<"build", "index_output">>,
                   <<"build", "initialization_output">>, <<"index", "txns">>,
                   <<"initialize", "plan">>} : Past(c)' <=> Past(c)
  <2>1. /\ \A c \in Bridges : /\ <<"link", c>> = <<"link", b>> <=> c = b
                              /\ <<"start", c>> # <<"link", b>> /\ <<"finish", c>> # <<"link", b>>
        /\ \A c \in {<<"construct", "executor">>, <<"generate", "txns">>,
                     <<"build", "index_output">>, <<"build", "initialization_output">>,
                     <<"index", "txns">>, <<"initialize", "plan">>} : c # <<"link", b>>
    OBVIOUS
  <2>2. QED
    BY <1>3, <2>1, Zenon
<1>9. TypeOK'
  <2>1. \A a \in Arrays : store'[a] # Null => Device(store'[a]) = Device(a)
    <3>1. Device(Target(to)) = Device(to)
      BY LinkTarget, Zenon DEF BridgeInv
    <3>2. QED
      BY <1>4, <3>1, Zenon DEF BridgeInv, TypeOK
  <2>2. /\ packed' \in BOOLEAN /\ executionDevice' \in {"CPU", "GPU"}
        /\ size' \in [Arrays -> 0 .. Capacity]
        /\ mem' \in [Arrays -> [Parts -> {Zeroed} \cup (Kinds \X Epochs)]]
        /\ held' \in [{ParamInput, PlanInput} -> [store : Arrays \cup {Null}, size : 0 .. Capacity]]
    BY <1>1, Zenon DEF BridgeInv, TypeOK
  <2>3. QED
    BY <1>3, <1>4, <1>6, <2>1, <2>2, Zenon DEF TypeOK
<1>10. PointersSet'
  <2>1. \A a \in TxnArrays \cup {IndexOutput, InitOutput} : store'[a] = OwnMemory(a)
    BY <1>4, <1>7, Zenon DEF BridgeInv, PointersSet
  <2>2. ASSUME NEW c \in Bridges
        PROVE  store'[Ends(c)[2]] = IF Past(<<"link", c>>)' THEN Target(Ends(c)[2]) ELSE Null
    BY <1>4, <1>7, <1>8, Zenon DEF BridgeInv, PointersSet
  <2>3. QED
    BY <1>6, <2>1, <2>2, Zenon DEF PointersSet
<1>11. \A c \in Bridges : c # b /\ Relinked(c)' => Relinked(c)
  <2>1. Len(Before)' = Len(Before) /\ Len(Before) = 6 /\ pc \in Nat
    <3>1. Len(Before)' = Len(Before)
      BY DEF Before
    <3>2. pc \in Nat
      BY <1>3, SMT
    <3>3. QED
      BY <1>3, <3>1, <3>2, ProgramLength, Zenon
  <2>2. pc = 7 => b = "input"
    <3>1. Program[7] = <<"link", "input">>
      BY YcsbProgram, TpccProgram, Zenon
    <3>2. QED
      BY <1>1, <3>1, CallNames, Zenon DEF At, Bridges
  <2>3. pc + 1 > 6 + 1 => pc > 6 + 1 \/ pc = 7
    BY <2>1, SMT
  <2>4. QED
    BY <1>3, <1>8, <2>1, <2>2, <2>3, Zenon DEF Relinked
<1>12. BridgesLinked'
  <2>1. ASSUME NEW c \in Bridges, Relinked(c)'
        PROVE  /\ bridge'[c].from = Ends(c)[1] /\ bridge'[c].src = store'[Ends(c)[1]]
               /\ bridge'[c].to = Ends(c)[2] /\ bridge'[c].dest = store'[Ends(c)[2]]
    <3>1. CASE c = b
      BY <1>5, <3>1, Zenon
    <3>2. CASE c # b
      <4>1. /\ bridge[c].from = Ends(c)[1] /\ bridge[c].src = store[Ends(c)[1]]
            /\ bridge[c].to = Ends(c)[2] /\ bridge[c].dest = store[Ends(c)[2]]
        BY <1>11, <2>1, <3>2, Zenon DEF BridgeInv, BridgesLinked
      <4>2. /\ bridge'[c] = bridge[c]
            /\ store'[Ends(c)[1]] = store[Ends(c)[1]] /\ store'[Ends(c)[2]] = store[Ends(c)[2]]
        BY <1>4, <1>7, <3>2, Zenon
      <4>3. QED
        BY <4>1, <4>2, Zenon
    <3>3. QED
      BY <3>1, <3>2, Zenon
  <2>2. QED
    BY <1>6, <2>1, Zenon DEF BridgesLinked
<1>13. ExecutorLinked'
  BY <1>1, <1>6, <1>8, Zenon DEF BridgeInv, ExecutorLinked
<1>14. \A c \in Bridges : c # b => (Crosses(c)' <=> Crosses(c))
  BY <1>4, <1>6, Zenon DEF Crosses
<1>15. CopiesInTheirPhase'
  BY <1>4, <1>5, <1>6, <1>8, <1>14, Zenon DEF BridgeInv, CopiesInTheirPhase
<1>16. CopiedOrPending'
  <2>1. ~ Past(<<"start", b>>)
    BY <1>1, <1>3, Order, Zenon
  <2>2. ASSUME NEW c \in Bridges, c # b, Past(<<"start", c>>), Crosses(c), NEW p \in Extent(Carried(c))
        PROVE  p \in bridge'[c].pending \/ mem'[bridge'[c].dest][p] = Carried(c)
    <3>1. p \in bridge[c].pending \/ mem[bridge[c].dest][p] = Carried(c)
      BY <2>2, Zenon DEF BridgeInv, CopiedOrPending
    <3>2. bridge'[c] = bridge[c]
      BY <1>4, <2>2, Zenon
    <3>3. QED
      BY <1>1, <3>1, <3>2, Zenon
  <2>3. ASSUME NEW c \in Bridges, Past(<<"start", c>>)', Crosses(c)'
        PROVE  \A p \in Extent(Carried(c)) :
                 p \in bridge'[c].pending \/ mem'[bridge'[c].dest][p] = Carried(c)
    <3>1. c # b /\ Past(<<"start", c>>) /\ Crosses(c)
      BY <1>8, <1>14, <2>1, <2>3, Zenon
    <3>2. QED
      BY <2>2, <3>1, Zenon
  <2>4. QED
    BY <1>6, <2>3, Zenon DEF CopiedOrPending
<1>17. TxnsGenerated' /\ OutputsWritten'
  BY <1>1, <1>3, <1>6, <1>8, ContentsKept, Zenon
<1>18. QED
  BY <1>9, <1>10, <1>12, <1>13, <1>15, <1>16, <1>17, Zenon DEF BridgeInv

(* From StartTransfer on, all that the array holds is to be copied.        *)
LEMMA StartCopies ==
  ASSUME BridgeInv, NEW b \in Bridges, At(<<"start", b>>), Proceed,
         UNCHANGED <<packed, executionDevice, store, mem, held>>,
         size' \in [Arrays -> 0 .. Capacity], \A a \in TxnArrays : size'[a] = size[a],
         \A c \in Bridges :
           /\ bridge'[c].from = bridge[c].from /\ bridge'[c].src = bridge[c].src
           /\ bridge'[c].to = bridge[c].to /\ bridge'[c].dest = bridge[c].dest
           /\ c # b => bridge'[c].pending = bridge[c].pending,
         bridge'[b].pending = IF Crosses(b) THEN Extent(Carried(b)) ELSE {},
         bridge' \in [Bridges -> [src : Arrays \cup {Null}, dest : Arrays \cup {Null},
                                  from : Arrays \cup {Null}, to : Arrays \cup {Null},
                                  pending : SUBSET Parts]]
  PROVE  BridgeInv'
<1>1. ~ AtPhase("execute")
  BY CallNames DEF At, AtPhase
<1>2. /\ \A c \in Bridges : /\ <<"start", b>> # <<"link", c>> /\ <<"start", b>> # <<"finish", c>>
                            /\ <<"start", c>> = <<"start", b>> <=> c = b
      /\ \A c \in {<<"construct", "executor">>, <<"generate", "txns">>,
                   <<"build", "index_output">>, <<"build", "initialization_output">>,
                   <<"index", "txns">>, <<"initialize", "plan">>} : c # <<"start", b>>
  OBVIOUS
<1>3. /\ PointersSet' /\ BridgesLinked' /\ ExecutorLinked'
      /\ epoch' = epoch /\ epoch' \in Epochs /\ (pc \in 1 .. Len(Program) + 1)'
      /\ \A c : Past(c)' <=> Past(c) \/ c = <<"start", b>>
      /\ \A c \in Bridges : (Crosses(c)' <=> Crosses(c)) /\ (Relinked(c)' <=> Relinked(c))
      /\ \A d : End(d)' = End(d) /\ Extent(d)' = Extent(d)
      /\ \A c : Carried(c)' = Carried(c)
  <2>1. <<"start", b>> # <<"construct", "executor">>
    OBVIOUS
  <2>2. QED
    BY <1>1, <1>2, <2>1, PhaseStep, Zenon
<1>4. TypeOK'
  BY <1>3, Zenon DEF BridgeInv, TypeOK, Device
<1>5. ~ Past(<<"finish", b>>)
  BY Order, Zenon DEF BridgeInv, TypeOK
<1>6. CopiesInTheirPhase'
  <2>1. ASSUME NEW c \in Bridges
        PROVE  /\ bridge'[c].pending \subseteq Extent(Carried(c))
               /\ bridge'[c].pending # {} =>
                    Past(<<"start", c>>)' /\ ~ Past(<<"finish", c>>)' /\ Crosses(c)'
    <3>1. CASE c = b
      BY <1>2, <1>3, <1>5, <3>1, Zenon
    <3>2. CASE c # b
      BY <1>2, <1>3, <3>2, Zenon DEF BridgeInv, CopiesInTheirPhase
    <3>3. QED
      BY <3>1, <3>2, Zenon
  <2>2. QED
    BY <1>3, <2>1, Zenon DEF CopiesInTheirPhase
<1>7. CopiedOrPending'
  <2>1. ASSUME NEW c \in Bridges, Past(<<"start", c>>)', Crosses(c)'
        PROVE  \A p \in Extent(Carried(c)) :
                 p \in bridge'[c].pending \/ mem'[bridge'[c].dest][p] = Carried(c)
    <3>1. CASE c = b
      BY <1>3, <2>1, <3>1, Zenon
    <3>2. CASE c # b
      <4>1. \A p \in Extent(Carried(c)) : p \in bridge[c].pending \/ mem[bridge[c].dest][p] = Carried(c)
        BY <1>2, <1>3, <2>1, <3>2, Zenon DEF BridgeInv, CopiedOrPending
      <4>2. /\ bridge'[c].pending = bridge[c].pending /\ bridge'[c].dest = bridge[c].dest
            /\ mem' = mem
        BY <3>2, Zenon
      <4>3. QED
        BY <4>1, <4>2, Zenon
    <3>3. QED
      BY <3>1, <3>2, Zenon
  <2>2. QED
    BY <1>3, <2>1, Zenon DEF CopiedOrPending
<1>8. TxnsGenerated' /\ OutputsWritten'
  BY <1>2, <1>3, ContentsKept, Zenon
<1>9. QED
  BY <1>3, <1>4, <1>6, <1>7, <1>8, Zenon DEF BridgeInv

(* A change of what a bridge has to copy.                                  *)
LEMMA PendingSet ==
  ASSUME TypeOK, NEW b \in Bridges, NEW parts \in SUBSET Parts,
         bridge' = [bridge EXCEPT ![b].pending = parts]
  PROVE  /\ \A c \in Bridges :
              /\ bridge'[c].from = bridge[c].from /\ bridge'[c].src = bridge[c].src
              /\ bridge'[c].to = bridge[c].to /\ bridge'[c].dest = bridge[c].dest
              /\ c # b => bridge'[c].pending = bridge[c].pending
         /\ bridge'[b].pending = parts
         /\ bridge' \in [Bridges -> [src : Arrays \cup {Null}, dest : Arrays \cup {Null},
                                     from : Arrays \cup {Null}, to : Arrays \cup {Null},
                                     pending : SUBSET Parts]]
<1>1. bridge \in [Bridges -> [src : Arrays \cup {Null}, dest : Arrays \cup {Null},
                              from : Arrays \cup {Null}, to : Arrays \cup {Null},
                              pending : SUBSET Parts]]
  BY Zenon DEF TypeOK
<1>2. QED
  BY <1>1

LEMMA StartStep ==
  ASSUME BridgeInv, NEW b \in Bridges, StartTransfer(b)
  PROVE  BridgeInv'
<1>1. /\ At(<<"start", b>>) /\ ~ packed /\ Proceed
      /\ UNCHANGED <<packed, executionDevice, store, size, mem, held>>
      /\ bridge' = [bridge EXCEPT ![b].pending = IF Crosses(b) THEN 0 .. Capacity - 1 ELSE {}]
  BY Zenon DEF StartTransfer
<1>2. Extent(Carried(b)) = 0 .. Capacity - 1 /\ Extent(Carried(b)) \subseteq Parts
  BY <1>1, DataOfEpoch, Extents, Zenon DEF BridgeInv, TypeOK
<1>3. (IF Crosses(b) THEN Extent(Carried(b)) ELSE {}) \in SUBSET Parts
  BY <1>2, Zenon
<1>4. bridge' = [bridge EXCEPT ![b].pending = IF Crosses(b) THEN Extent(Carried(b)) ELSE {}]
  BY <1>1, <1>2, Zenon
<1>5. size' \in [Arrays -> 0 .. Capacity] /\ TypeOK
  BY <1>1, Zenon DEF BridgeInv, TypeOK
<1>6. /\ \A c \in Bridges :
           /\ bridge'[c].from = bridge[c].from /\ bridge'[c].src = bridge[c].src
           /\ bridge'[c].to = bridge[c].to /\ bridge'[c].dest = bridge[c].dest
           /\ c # b => bridge'[c].pending = bridge[c].pending
      /\ bridge'[b].pending = IF Crosses(b) THEN Extent(Carried(b)) ELSE {}
      /\ bridge' \in [Bridges -> [src : Arrays \cup {Null}, dest : Arrays \cup {Null},
                                  from : Arrays \cup {Null}, to : Arrays \cup {Null},
                                  pending : SUBSET Parts]]
  BY <1>3, <1>4, <1>5, PendingSet, Zenon
<1>7. QED
  BY <1>1, <1>5, <1>6, StartCopies, Zenon

(* packed_size is the end of what the array holds, from either device.     *)
LEMMA SizeOfSource ==
  ASSUME BridgeInv, packed, NEW b \in Bridges, At(<<"start", b>>), Crosses(b)
  PROVE  /\ PackedSize(b) = End(Carried(b)) /\ PackedSize(b) \in 0 .. Capacity
         /\ Extent(Carried(b)) = 0 .. PackedSize(b) - 1 \cup {IndexPart}
         /\ Extent(Carried(b)) \subseteq Parts
<1>1. /\ packed \in BOOLEAN /\ pc \in 1 .. Len(Program) + 1 /\ epoch \in Epochs
      /\ Carried(b) \in Kinds \X Epochs
  BY DataOfEpoch, Zenon DEF BridgeInv, TypeOK
<1>2. /\ End(Carried(b)) \in 0 .. Capacity /\ IndexPart \in Extent(Carried(b))
      /\ Extent(Carried(b)) = 0 .. End(Carried(b)) - 1 \cup {IndexPart}
      /\ Extent(Carried(b)) \subseteq Parts
  BY <1>1, Extents, Zenon
<1>3. Relinked(b)
  BY <1>1, Order, Zenon
<1>4. /\ bridge[b].from = bridge[b].src
      /\ \/ b = "input" /\ bridge[b].src = TxnArray(epoch)
         \/ b = "param" /\ bridge[b].src = IndexOutput
         \/ b = "plan" /\ bridge[b].src = InitOutput
  BY <1>3, Crossing, Zenon
<1>5. CASE b = "input"
  <2>1. Past(<<"generate", "txns">>)
    BY <1>1, <1>5, Order, Zenon
  <2>2. bridge[b].from = TxnArray(epoch)
    BY <1>4, <1>5
  <2>3. Device(bridge[b].from) # "GPU"
    <3>1. Device(TxnArray(epoch)) = "CPU"
      BY <1>1, Devices, Zenon
    <3>2. QED
      BY <2>2, <3>1
  <2>4. PackedSize(b) = size[TxnArray(epoch)]
    BY <2>2, <2>3, Zenon DEF PackedSize
  <2>5. size[TxnArray(epoch)] = End(<<"txn", epoch>>)
    BY <1>1, <2>1, Zenon DEF BridgeInv, TxnsGenerated
  <2>6. PackedSize(b) = End(Carried(b))
    BY <1>5, <2>4, <2>5, CarriedData, Zenon
  <2>7. QED
    BY <1>2, <2>6, Zenon
<1>6. CASE b = "param"
  <2>1. Past(<<"index", "txns">>)
    BY <1>1, <1>6, Order, Zenon
  <2>2. bridge[b].from = IndexOutput /\ bridge[b].src = IndexOutput
    BY <1>4, <1>6
  <2>3. Device(bridge[b].from) = "GPU"
    BY <2>2, Devices, Zenon
  <2>4. Carried(b) = <<"param", epoch>>
    BY <1>6, CarriedData, Zenon
  <2>5. mem[IndexOutput][IndexPart] = Carried(b)
    BY <1>2, <2>1, <2>4, Zenon DEF BridgeInv, OutputsWritten
  <2>6. PackedSize(b) = End(Carried(b))
    BY <2>2, <2>3, <2>5, Zenon DEF PackedSize
  <2>7. QED
    BY <1>2, <2>6, Zenon
<1>7. CASE b = "plan"
  <2>1. Past(<<"initialize", "plan">>)
    BY <1>1, <1>7, Order, Zenon
  <2>2. bridge[b].from = InitOutput /\ bridge[b].src = InitOutput
    BY <1>4, <1>7
  <2>3. Device(bridge[b].from) = "GPU"
    BY <2>2, Devices, Zenon
  <2>4. Carried(b) = <<"plan", epoch>>
    BY <1>7, CarriedData, Zenon
  <2>5. mem[InitOutput][IndexPart] = Carried(b)
    BY <1>2, <2>1, <2>4, Zenon DEF BridgeInv, OutputsWritten
  <2>6. PackedSize(b) = End(Carried(b))
    BY <2>2, <2>3, <2>5, Zenon DEF PackedSize
  <2>7. QED
    BY <1>2, <2>6, Zenon
<1>8. QED
  BY <1>4, <1>5, <1>6, <1>7, Zenon

LEMMA StartPackedStep ==
  ASSUME BridgeInv, NEW b \in Bridges, StartPackedTransfer(b)
  PROVE  BridgeInv'
<1>1. /\ At(<<"start", b>>) /\ packed /\ Proceed
      /\ UNCHANGED <<packed, executionDevice, store, mem, held>>
  BY Zenon DEF StartPackedTransfer
<1>2. /\ TypeOK /\ packed \in BOOLEAN /\ pc \in 1 .. Len(Program) + 1
      /\ size \in [Arrays -> 0 .. Capacity]
  BY Zenon DEF BridgeInv, TypeOK
<1>3. CASE Crosses(b)
  <2>1. /\ bridge' = [bridge EXCEPT ![b].pending = 0 .. PackedSize(b) - 1 \cup {IndexPart}]
        /\ size' = [size EXCEPT ![bridge[b].from] = PackedSize(b), ![bridge[b].to] = PackedSize(b)]
    BY <1>3, Zenon DEF StartPackedTransfer
  <2>2. /\ PackedSize(b) = End(Carried(b)) /\ PackedSize(b) \in 0 .. Capacity
        /\ Extent(Carried(b)) = 0 .. PackedSize(b) - 1 \cup {IndexPart}
        /\ Extent(Carried(b)) \in SUBSET Parts
    BY <1>1, <1>3, SizeOfSource, Zenon
  <2>3. bridge' = [bridge EXCEPT ![b].pending = Extent(Carried(b))]
    BY <2>1, <2>2, Zenon
  <2>4. /\ \A c \in Bridges :
             /\ bridge'[c].from = bridge[c].from /\ bridge'[c].src = bridge[c].src
             /\ bridge'[c].to = bridge[c].to /\ bridge'[c].dest = bridge[c].dest
             /\ c # b => bridge'[c].pending = bridge[c].pending
        /\ bridge'[b].pending = Extent(Carried(b))
        /\ bridge' \in [Bridges -> [src : Arrays \cup {Null}, dest : Arrays \cup {Null},
                                    from : Arrays \cup {Null}, to : Arrays \cup {Null},
                                    pending : SUBSET Parts]]
    BY <1>2, <2>2, <2>3, PendingSet, Zenon
  <2>5. size' \in [Arrays -> 0 .. Capacity]
    BY <1>2, <2>1, <2>2
  <2>6. \A a \in TxnArrays : size'[a] = size[a]
    <3>1. /\ bridge[b].to \notin TxnArrays /\ bridge[b].from = Ends(b)[1]
      <4>1. Relinked(b)
        BY <1>1, <1>2, Order, Zenon
      <4>2. bridge[b].to = Ends(b)[2] /\ bridge[b].from = Ends(b)[1]
        BY <4>1, Crossing, Zenon
      <4>3. Ends(b)[2] \in {IndexInput, InitInput, ParamInput, PlanInput}
        BY <1>2, LinkTarget, Zenon
      <4>4. QED
        BY <4>2, <4>3, ArrayNames, Zenon
    <3>2. ASSUME NEW a \in TxnArrays, a = bridge[b].from
          PROVE  PackedSize(b) = size[a]
      <4>1. epoch \in Epochs
        BY Zenon DEF BridgeInv, TypeOK
      <4>2. Device(bridge[b].from) = "CPU"
        BY <3>2, Zenon DEF Device
      <4>3. Device(bridge[b].from) # "GPU"
        BY <4>2
      <4>4. QED
        BY <3>2, <4>3, Zenon DEF PackedSize
    <3>3. \A a \in TxnArrays : a \in Arrays
      BY ArrayNames, Zenon
    <3>4. QED
      BY <1>2, <2>1, <3>1, <3>2, <3>3
  <2>7. bridge'[b].pending = IF Crosses(b) THEN Extent(Carried(b)) ELSE {}
    BY <1>3, <2>4, Zenon
  <2>8. QED
    BY <1>1, <2>4, <2>5, <2>6, <2>7, StartCopies, Zenon
<1>4. CASE ~ Crosses(b)
  <2>1. UNCHANGED <<size, bridge>>
    BY <1>4, Zenon DEF StartPackedTransfer
  <2>2. bridge[b].pending = {}
    BY <1>4, Zenon DEF BridgeInv, CopiesInTheirPhase
  <2>3. /\ bridge'[b].pending = IF Crosses(b) THEN Extent(Carried(b)) ELSE {}
        /\ size' \in [Arrays -> 0 .. Capacity]
        /\ bridge' \in [Bridges -> [src : Arrays \cup {Null}, dest : Arrays \cup {Null},
                                    from : Arrays \cup {Null}, to : Arrays \cup {Null},
                                    pending : SUBSET Parts]]
    BY <1>4, <2>1, <2>2, Zenon DEF BridgeInv, TypeOK
  <2>4. /\ \A c \in Bridges :
             /\ bridge'[c].from = bridge[c].from /\ bridge'[c].src = bridge[c].src
             /\ bridge'[c].to = bridge[c].to /\ bridge'[c].dest = bridge[c].dest
             /\ c # b => bridge'[c].pending = bridge[c].pending
        /\ \A a \in TxnArrays : size'[a] = size[a]
    BY <2>1, Zenon
  <2>5. QED
    BY <1>1, <2>3, <2>4, StartCopies, Zenon
<1>5. QED
  BY <1>3, <1>4, Zenon

(* Where copies come from and go to.                                       *)
LEMMA CopyingBridge ==
  ASSUME BridgeInv, NEW b \in Bridges, Past(<<"start", b>>), Crosses(b)
  PROVE  /\ Relinked(b)
         /\ bridge[b].src \in TxnArrays \cup {IndexOutput, InitOutput} /\ bridge[b].src \in Arrays
         /\ bridge[b].dest \in {IndexInput, ParamInput, PlanInput} /\ bridge[b].dest \in Arrays
         /\ \A c \in Bridges : Past(<<"start", c>>) /\ Crosses(c) =>
              /\ bridge[c].src # bridge[b].dest
              /\ c # b => bridge[c].dest # bridge[b].dest
<1> DEFINE Places(c) ==
             \/ c = "input" /\ bridge[c].src = TxnArray(epoch) /\ bridge[c].dest = IndexInput
             \/ c = "param" /\ bridge[c].src = IndexOutput /\ bridge[c].dest = ParamInput
             \/ c = "plan" /\ bridge[c].src = InitOutput /\ bridge[c].dest = PlanInput
<1>1. /\ packed \in BOOLEAN /\ pc \in 1 .. Len(Program) + 1 /\ TxnArray(epoch) \in TxnArrays
  BY ArrayNames, Zenon DEF BridgeInv, TypeOK
<1>2. \A c \in Bridges : Past(<<"start", c>>) /\ Crosses(c) => Relinked(c) /\ Places(c)
  BY <1>1, Order, Crossing, Zenon
<1>3. ASSUME NEW c \in Bridges, Past(<<"start", c>>), Crosses(c)
      PROVE  /\ bridge[c].src \in TxnArrays \cup {IndexOutput, InitOutput}
             /\ bridge[c].dest \in {IndexInput, ParamInput, PlanInput}
             /\ bridge[c].src \in Arrays /\ bridge[c].dest \in Arrays
  <2>1. Places(c)
    BY <1>2, <1>3, Zenon
  <2>2. /\ bridge[c].src \in TxnArrays \cup {IndexOutput, InitOutput}
        /\ bridge[c].dest \in {IndexInput, ParamInput, PlanInput}
    BY <1>1, <2>1
  <2>3. QED
    BY <2>2, ArrayNames, Zenon
<1>4. ASSUME NEW c \in Bridges, Past(<<"start", c>>), Crosses(c)
      PROVE  /\ bridge[c].src # bridge[b].dest
             /\ c # b => bridge[c].dest # bridge[b].dest
  <2>1. bridge[c].src # bridge[b].dest
    <3>1. /\ bridge[c].src \in TxnArrays \cup {IndexOutput, InitOutput}
          /\ bridge[b].dest \in {IndexInput, ParamInput, PlanInput}
      BY <1>3, <1>4, Zenon
    <3>2. \A a \in TxnArrays \cup {IndexOutput, InitOutput} :
            \A d \in {IndexInput, ParamInput, PlanInput} : a # d
      BY ArrayNames, Zenon
    <3>3. QED
      BY <3>1, <3>2, Zenon
  <2>2. Places(c) /\ Places(b)
    BY <1>2, <1>4, Zenon
  <2>3. c # b => bridge[c].dest # bridge[b].dest
    <3>1. IndexInput # ParamInput /\ IndexInput # PlanInput /\ ParamInput # PlanInput
      BY ArrayNames, Zenon
    <3>2. QED
      BY <2>2, <3>1
  <2>4. QED
    BY <2>1, <2>3, Zenon
<1>5. QED
  BY <1>2, <1>3, <1>4, Zenon

(* What is to be copied is there: the data of the epoch.                   *)
LEMMA SourceReady ==
  ASSUME BridgeInv, NEW b \in Bridges, Past(<<"start", b>>), Crosses(b),
         NEW p \in Extent(Carried(b))
  PROVE  mem[bridge[b].src][p] = Carried(b)
<1>1. /\ packed \in BOOLEAN /\ pc \in 1 .. Len(Program) + 1 /\ epoch \in Epochs
  BY Zenon DEF BridgeInv, TypeOK
<1>2. Relinked(b)
  BY CopyingBridge, Zenon
<1>3. \/ b = "input" /\ bridge[b].src = TxnArray(epoch)
      \/ b = "param" /\ bridge[b].src = IndexOutput
      \/ b = "plan" /\ bridge[b].src = InitOutput
  BY <1>2, Crossing, Zenon
<1>4. CASE b = "input"
  <2>1. Past(<<"generate", "txns">>)
    BY <1>1, <1>4, Order, Zenon
  <2>2. bridge[b].src = TxnArray(epoch) /\ Carried(b) = <<"txn", epoch>>
    BY <1>3, <1>4, CarriedData
  <2>3. \A q \in Extent(<<"txn", epoch>>) : mem[TxnArray(epoch)][q] = <<"txn", epoch>>
    BY <1>1, <2>1, Zenon DEF BridgeInv, TxnsGenerated
  <2>4. QED
    BY <2>2, <2>3
<1>5. CASE b = "param"
  <2>1. Past(<<"index", "txns">>)
    BY <1>1, <1>5, Order, Zenon
  <2>2. bridge[b].src = IndexOutput /\ Carried(b) = <<"param", epoch>>
    BY <1>3, <1>5, CarriedData
  <2>3. \A q \in Extent(<<"param", epoch>>) : mem[IndexOutput][q] = <<"param", epoch>>
    BY <2>1, Zenon DEF BridgeInv, OutputsWritten
  <2>4. QED
    BY <2>2, <2>3
<1>6. CASE b = "plan"
  <2>1. Past(<<"initialize", "plan">>)
    BY <1>1, <1>6, Order, Zenon
  <2>2. bridge[b].src = InitOutput /\ Carried(b) = <<"plan", epoch>>
    BY <1>3, <1>6, CarriedData
  <2>3. \A q \in Extent(<<"plan", epoch>>) : mem[InitOutput][q] = <<"plan", epoch>>
    BY <2>1, Zenon DEF BridgeInv, OutputsWritten
  <2>4. QED
    BY <2>2, <2>3
<1>7. QED
  BY <1>3, <1>4, <1>5, <1>6, Zenon

(* A copy of a part writes that part of the second array only.             *)
LEMMA CopiedPart ==
  ASSUME BridgeInv, NEW b \in Bridges, CopyPart(b)
  PROVE  \E p \in bridge[b].pending :
           /\ Past(<<"start", b>>) /\ Crosses(b) /\ p \in Extent(Carried(b))
           /\ mem' \in [Arrays -> [Parts -> {Zeroed} \cup (Kinds \X Epochs)]]
           /\ mem'[bridge[b].dest][p] = Carried(b)
           /\ \A q \in Parts : q # p => mem'[bridge[b].dest][q] = mem[bridge[b].dest][q]
           /\ \A a \in Arrays : a # bridge[b].dest => mem'[a] = mem[a]
           /\ bridge' = [bridge EXCEPT ![b].pending = bridge[b].pending \ {p}]
           /\ bridge[b].pending \ {p} \in SUBSET Parts
<1>1. PICK p \in bridge[b].pending :
        /\ mem' = [mem EXCEPT ![bridge[b].dest][p] = mem[bridge[b].src][p]]
        /\ bridge' = [bridge EXCEPT ![b].pending = @ \ {p}]
  BY Zenon DEF CopyPart
<1>2. /\ Past(<<"start", b>>) /\ Crosses(b) /\ p \in Extent(Carried(b))
      /\ bridge[b].pending \subseteq Extent(Carried(b))
  BY <1>1, Zenon DEF BridgeInv, CopiesInTheirPhase
<1>3. /\ Carried(b) \in Kinds \X Epochs /\ Extent(Carried(b)) \subseteq Parts
  <2>1. Carried(b) \in Kinds \X Epochs /\ packed \in BOOLEAN
    BY DataOfEpoch, Zenon DEF BridgeInv, TypeOK
  <2>2. QED
    BY <2>1, Extents, Zenon
<1>4. mem[bridge[b].src][p] = Carried(b) /\ bridge[b].dest \in Arrays
  BY <1>2, SourceReady, CopyingBridge, Zenon
<1>5. /\ mem \in [Arrays -> [Parts -> {Zeroed} \cup (Kinds \X Epochs)]]
      /\ bridge \in [Bridges -> [src : Arrays \cup {Null}, dest : Arrays \cup {Null},
                                 from : Arrays \cup {Null}, to : Arrays \cup {Null},
                                 pending : SUBSET Parts]]
  BY Zenon DEF BridgeInv, TypeOK
<1>6. mem' = [mem EXCEPT ![bridge[b].dest] = [mem[bridge[b].dest] EXCEPT ![p] = Carried(b)]]
  BY <1>1, <1>4, <1>5
<1>7. /\ mem' \in [Arrays -> [Parts -> {Zeroed} \cup (Kinds \X Epochs)]]
      /\ mem'[bridge[b].dest][p] = Carried(b)
      /\ \A q \in Parts : q # p => mem'[bridge[b].dest][q] = mem[bridge[b].dest][q]
      /\ \A a \in Arrays : a # bridge[b].dest => mem'[a] = mem[a]
  BY <1>2, <1>3, <1>4, <1>5, <1>6
<1>8. /\ bridge' = [bridge EXCEPT ![b].pending = bridge[b].pending \ {p}]
      /\ bridge[b].pending \ {p} \in SUBSET Parts
  BY <1>1, <1>2, <1>3, <1>5
<1>9. QED
  BY <1>1, <1>2, <1>7, <1>8, Zenon

LEMMA CopyStep ==
  ASSUME BridgeInv, NEW b \in Bridges, CopyPart(b)
  PROVE  BridgeInv'
<1>1. /\ UNCHANGED <<packed, executionDevice, epoch, pc>> /\ epoch' = epoch /\ pc' = pc
      /\ UNCHANGED <<packed, executionDevice, store, held>> /\ size' = size /\ packed' = packed
  BY DEF CopyPart
<1>2. PICK p \in bridge[b].pending :
        /\ Past(<<"start", b>>) /\ Crosses(b) /\ p \in Extent(Carried(b))
        /\ mem' \in [Arrays -> [Parts -> {Zeroed} \cup (Kinds \X Epochs)]]
        /\ mem'[bridge[b].dest][p] = Carried(b)
        /\ \A q \in Parts : q # p => mem'[bridge[b].dest][q] = mem[bridge[b].dest][q]
        /\ \A a \in Arrays : a # bridge[b].dest => mem'[a] = mem[a]
        /\ bridge' = [bridge EXCEPT ![b].pending = bridge[b].pending \ {p}]
        /\ bridge[b].pending \ {p} \in SUBSET Parts
  BY CopiedPart, Zenon
<1>3. /\ \A c \in Bridges :
           /\ bridge'[c].from = bridge[c].from /\ bridge'[c].src = bridge[c].src
           /\ bridge'[c].to = bridge[c].to /\ bridge'[c].dest = bridge[c].dest
           /\ c # b => bridge'[c].pending = bridge[c].pending
      /\ bridge'[b].pending = bridge[b].pending \ {p}
      /\ bridge' \in [Bridges -> [src : Arrays \cup {Null}, dest : Arrays \cup {Null},
                                  from : Arrays \cup {Null}, to : Arrays \cup {Null},
                                  pending : SUBSET Parts]]
  <2>1. TypeOK
    BY Zenon DEF BridgeInv
  <2>2. QED
    BY <1>2, <2>1, PendingSet, Zenon
<1>4. /\ \A c : Past(c)' <=> Past(c)
      /\ \A c \in Bridges : Relinked(c)' <=> Relinked(c)
      /\ \A c \in Bridges : Carried(c)' = Carried(c)
      /\ \A a : Device(a)' = Device(a)
      /\ \A d : End(d)' = End(d) /\ Extent(d)' = Extent(d)
      /\ Program' = Program
  BY <1>1, PlaceKept, Zenon
<1>5. /\ PointersSet' /\ BridgesLinked' /\ ExecutorLinked'
      /\ \A c \in Bridges : Crosses(c)' <=> Crosses(c)
  BY <1>1, <1>3, <1>4, LinksKept, Zenon
<1>6. TypeOK'
  BY <1>1, <1>2, <1>3, <1>4, Zenon DEF BridgeInv, TypeOK
<1>7. CopiesInTheirPhase'
  <2>1. \A c \in Bridges : bridge'[c].pending \subseteq bridge[c].pending
    BY <1>3, Zenon
  <2>2. QED
    BY <1>4, <1>5, <2>1, Zenon DEF BridgeInv, CopiesInTheirPhase
<1>8. CopiedOrPending'
  <2>1. ASSUME NEW c \in Bridges, Past(<<"start", c>>), Crosses(c), NEW q \in Extent(Carried(c))
        PROVE  q \in bridge'[c].pending \/ mem'[bridge[c].dest][q] = Carried(c)
    <3>1. q \in bridge[c].pending \/ mem[bridge[c].dest][q] = Carried(c)
      BY <2>1, Zenon DEF BridgeInv, CopiedOrPending
    <3>2. CASE c = b
      <4>1. q \in Parts
        BY <2>1, DataOfEpoch, Extents, Zenon DEF BridgeInv, TypeOK
      <4>2. q = p \/ mem'[bridge[b].dest][q] = mem[bridge[b].dest][q]
        BY <1>2, <4>1, Zenon
      <4>3. QED
        BY <1>2, <1>3, <3>1, <3>2, <4>2
    <3>3. CASE c # b
      <4>1. bridge[c].dest # bridge[b].dest /\ bridge[c].dest \in Arrays
        BY <1>2, <2>1, <3>3, CopyingBridge, Zenon
      <4>2. mem'[bridge[c].dest] = mem[bridge[c].dest] /\ bridge'[c].pending = bridge[c].pending
        BY <1>2, <1>3, <3>3, <4>1, Zenon
      <4>3. QED
        BY <3>1, <4>2, Zenon
    <3>4. QED
      BY <3>2, <3>3, Zenon
  <2>2. \A c \in Bridges : bridge'[c].dest = bridge[c].dest
    BY <1>3, Zenon
  <2>3. QED
    BY <1>4, <1>5, <2>1, <2>2, Zenon DEF CopiedOrPending
<1>9. TxnsGenerated' /\ OutputsWritten'
  <2>1. \A a \in TxnArrays \cup {IndexOutput, InitOutput} : a \in Arrays /\ mem'[a] = mem[a]
    <3>1. bridge[b].dest \in {IndexInput, ParamInput, PlanInput}
      BY <1>2, CopyingBridge, Zenon
    <3>2. \A a \in TxnArrays \cup {IndexOutput, InitOutput} : a \in Arrays
      BY ArrayNames, Zenon
    <3>3. \A a \in TxnArrays \cup {IndexOutput, InitOutput} : a # bridge[b].dest
      <4>1. \A a \in TxnArrays : a # bridge[b].dest
        <5>1. bridge[b].dest \notin TxnArrays
          BY <3>1, ArrayNames
        <5>2. QED
          BY <5>1
      <4>2. IndexOutput # bridge[b].dest /\ InitOutput # bridge[b].dest
        BY <3>1, ArrayNames, Zenon
      <4>3. QED
        BY <4>1, <4>2, Zenon
    <3>4. \A a \in Arrays : a # bridge[b].dest => mem'[a] = mem[a]
      BY <1>2, Zenon
    <3>5. QED
      BY <3>2, <3>3, <3>4, Zenon
  <2>2. /\ \A a \in TxnArrays : mem'[a] = mem[a] /\ size'[a] = size[a]
        /\ mem'[IndexOutput] = mem[IndexOutput] /\ mem'[InitOutput] = mem[InitOutput]
    BY <1>1, <2>1
  <2>3. /\ Past(<<"generate", "txns">>)' => Past(<<"generate", "txns">>)
        /\ \A c \in {<<"build", "index_output">>, <<"build", "initialization_output">>,
                     <<"index", "txns">>, <<"initialize", "plan">>} : Past(c)' => Past(c)
    BY <1>4, Zenon
  <2>4. \A d : End(d)' = End(d) /\ Extent(d)' = Extent(d)
    BY <1>4, Zenon
  <2>5. QED
    BY <1>1, <2>2, <2>3, <2>4, ContentsKept, Zenon
<1>10. QED
  BY <1>5, <1>6, <1>7, <1>8, <1>9, Zenon DEF BridgeInv

LEMMA NextInv ==
  ASSUME BridgeInv, [Next]_vars
  PROVE  BridgeInv'
<1>1. ASSUME NEW b \in Bridges, Link(b)
      PROVE  BridgeInv'
  BY <1>1, LinkStep, Zenon
<1>2. ASSUME NEW b \in Bridges, StartTransfer(b)
      PROVE  BridgeInv'
  BY <1>2, StartStep, Zenon
<1>3. ASSUME NEW b \in Bridges, FinishTransfer(b) \/ FinishPackedTransfer(b)
      PROVE  BridgeInv'
  BY <1>3, FinishStep, Zenon
<1>4. ASSUME NEW b \in Bridges, StartPackedTransfer(b)
      PROVE  BridgeInv'
  BY <1>4, StartPackedStep, Zenon
<1>5. CASE ConstructExecutor
  BY <1>5, ConstructStep, Zenon
<1>6. CASE GenerateTxns
  BY <1>6, GenerateStep, Zenon
<1>7. CASE BuildPackedTxnArray
  BY <1>7, BuildStep, Zenon
<1>8. CASE IndexTxns
  BY <1>8, IndexStep, Zenon
<1>9. CASE InitializePlan
  BY <1>9, InitializeStep, Zenon
<1>10. CASE SubmitOrExecute
  BY <1>10, SubmitStep, ExecuteStep, Zenon
<1>11. ASSUME NEW b \in Bridges, CopyPart(b)
       PROVE  BridgeInv'
  BY <1>11, CopyStep, Zenon
<1>12. CASE UNCHANGED vars
  BY <1>12, StutterStep, Zenon
<1>13. QED
  BY <1>1, <1>2, <1>3, <1>4, <1>5, <1>6, <1>7, <1>8, <1>9, <1>10, <1>11, <1>12, Zenon
     DEF Next, HostStep

(* At each place of the loops of runBenchmark, of YCSB and of TPC-C and on *)
(* either execution device, the pointers, the copies under way and the     *)
(* contents of the arrays are those that belong to the place.              *)
THEOREM Invariance == Spec => []BridgeInv
<1>1. Init => BridgeInv
  BY InitInv, Zenon
<1>2. BridgeInv /\ [Next]_vars => BridgeInv'
  BY NextInv, Zenon
<1>3. QED
  BY <1>1, <1>2, PTL DEF Spec

(* What is said of the types; and an array never names the memory of the   *)
(* other device (TxnBridge::Link).                                         *)
THEOREM TypeCorrect == Spec => []TypeOK
<1>1. BridgeInv => TypeOK
  BY Zenon DEF BridgeInv
<1>2. QED
  BY <1>1, Invariance, PTL

-----------------------------------------------------------------------------
(* What the phases read.                                                   *)

(* Past FinishTransfer the second array holds what the first held.         *)
LEMMA Arrived ==
  ASSUME BridgeInv, NEW b \in Bridges, Past(<<"start", b>>), Past(<<"finish", b>>), Crosses(b)
  PROVE  /\ bridge[b].dest = Target(Ends(b)[2])
         /\ \A p \in Extent(Carried(b)) : mem[Target(Ends(b)[2])][p] = Carried(b)
<1>1. bridge[b].pending = {}
  BY Zenon DEF BridgeInv, CopiesInTheirPhase
<1>2. \A p \in Extent(Carried(b)) : mem[bridge[b].dest][p] = Carried(b)
  BY <1>1, Zenon DEF BridgeInv, CopiedOrPending
<1>3. bridge[b].dest = Target(Ends(b)[2])
  BY CopyingBridge, Crossing, Zenon
<1>4. QED
  BY <1>2, <1>3

LEMMA ReadsItsEpoch ==
  ASSUME BridgeInv
  PROVE  PhasesReadTheirEpoch
<1> DEFINE Holds(a, k) == \A p \in Extent(<<k, epoch>>) : mem[a][p] = <<k, epoch>>
<1>1. /\ packed \in BOOLEAN /\ pc \in 1 .. Len(Program) + 1 /\ epoch \in Epochs
      /\ executionDevice \in {"CPU", "GPU"}
      /\ "input" \in Bridges /\ "init" \in Bridges /\ "param" \in Bridges /\ "plan" \in Bridges
  BY Zenon DEF BridgeInv, TypeOK, Bridges
<1>2. \A b \in Bridges : Relinked(b) =>
        (Crosses(b) <=> Device(Ends(b)[1]) # Device(Ends(b)[2]))
  BY Zenon DEF BridgeInv, BridgesLinked, Crosses
<1>3. CASE AtPhase("build") \/ AtPhase("index")
  <2>1. Past(<<"start", "input">>) /\ Past(<<"finish", "input">>) /\ Relinked("input")
    BY <1>1, <1>3, PhaseOrder, Order, Zenon
  <2>2. Crosses("input")
    <3>1. Device(Ends("input")[1]) = "CPU" /\ Device(Ends("input")[2]) = "GPU"
      BY <1>1, Devices, EndsPaired, Zenon
    <3>2. QED
      BY <1>1, <1>2, <2>1, <3>1
  <2>3. Target(IndexInput) = IndexInput /\ store[IndexInput] = IndexInput
    <3>1. Target(IndexInput) = IndexInput
      BY ArrayNames, Zenon DEF Target, OwnMemory
    <3>2. store[IndexInput] = Target(IndexInput)
      BY <1>1, <2>1, EndsPaired, Zenon DEF BridgeInv, PointersSet, Relinked
    <3>3. QED
      BY <3>1, <3>2, Zenon
  <2>4. Holds(store[IndexInput], "txn")
    <3>1. \A p \in Extent(Carried("input")) : mem[Target(Ends("input")[2])][p] = Carried("input")
      BY <1>1, <2>1, <2>2, Arrived, Zenon
    <3>2. Carried("input") = <<"txn", epoch>> /\ Target(Ends("input")[2]) = store[IndexInput]
      BY <2>3, CarriedData, EndsPaired, Zenon
    <3>3. QED
      BY <3>1, <3>2
  <2>5. Inputs = {<<store[IndexInput], "txn">>}
    BY <1>3 DEF Inputs, AtPhase
  <2>6. QED
    BY <2>4, <2>5 DEF PhasesReadTheirEpoch
<1>4. CASE AtPhase("submit")
  <2>1. Past(<<"link", "init">>) /\ Past(<<"index", "txns">>)
    BY <1>1, <1>4, PhaseOrder, Zenon
  <2>2. store[InitInput] = IndexOutput
    BY <1>1, <2>1, EndsPaired, Zenon DEF BridgeInv, PointersSet, Target
  <2>3. Holds(IndexOutput, "param")
    BY <2>1, Zenon DEF BridgeInv, OutputsWritten
  <2>4. Inputs = {<<store[InitInput], "param">>}
    BY <1>4 DEF Inputs, AtPhase
  <2>5. QED
    BY <2>2, <2>3, <2>4 DEF PhasesReadTheirEpoch
<1>5. CASE AtPhase("execute")
  <2>1. /\ Past(<<"construct", "executor">>)
        /\ Past(<<"index", "txns">>) /\ Past(<<"initialize", "plan">>)
        /\ Past(<<"start", "param">>) /\ Past(<<"finish", "param">>)
        /\ Past(<<"start", "plan">>) /\ Past(<<"finish", "plan">>)
        /\ Relinked("param") /\ Relinked("plan")
    BY <1>1, <1>5, PhaseOrder, Order, Zenon
  <2>2. held[ParamInput].store = Target(ParamInput) /\ held[PlanInput].store = Target(PlanInput)
    BY <2>1, Zenon DEF BridgeInv, ExecutorLinked
  <2>3. Holds(Target(ParamInput), "param") /\ Holds(Target(PlanInput), "plan")
    <3>1. CASE executionDevice = "GPU"
      <4>1. Target(ParamInput) = IndexOutput /\ Target(PlanInput) = InitOutput
        BY <3>1, ArrayNames, Zenon DEF Target
      <4>2. Holds(IndexOutput, "param") /\ Holds(InitOutput, "plan")
        BY <2>1, Zenon DEF BridgeInv, OutputsWritten
      <4>3. QED
        BY <4>1, <4>2
    <3>2. CASE executionDevice # "GPU"
      <4>1. Crosses("param") /\ Crosses("plan")
        <5>1. /\ Device(Ends("param")[1]) = "GPU" /\ Device(Ends("param")[2]) = executionDevice
              /\ Device(Ends("plan")[1]) = "GPU" /\ Device(Ends("plan")[2]) = executionDevice
          BY Devices, EndsPaired, Zenon
        <5>2. QED
          BY <1>1, <1>2, <2>1, <3>2, <5>1
      <4>2. /\ \A p \in Extent(Carried("param")) : mem[Target(Ends("param")[2])][p] = Carried("param")
            /\ \A p \in Extent(Carried("plan")) : mem[Target(Ends("plan")[2])][p] = Carried("plan")
        BY <1>1, <2>1, <4>1, Arrived, Zenon
      <4>3. /\ Carried("param") = <<"param", epoch>> /\ Ends("param")[2] = ParamInput
            /\ Carried("plan") = <<"plan", epoch>> /\ Ends("plan")[2] = PlanInput
        BY CarriedData, EndsPaired, Zenon
      <4>4. QED
        BY <4>2, <4>3
    <3>3. QED
      BY <3>1, <3>2, Zenon
  <2>4. Inputs = {<<held[ParamInput].store, "param">>, <<held[PlanInput].store, "plan">>}
    BY <1>5 DEF Inputs, AtPhase
  <2>5. QED
    BY <2>2, <2>3, <2>4 DEF PhasesReadTheirEpoch
<1>6. CASE ~ (AtPhase("build") \/ AtPhase("index") \/ AtPhase("submit") \/ AtPhase("execute"))
  <2>1. Inputs = {}
    BY <1>6, Zenon DEF Inputs
  <2>2. QED
    BY <2>1, Zenon DEF PhasesReadTheirEpoch
<1>7. QED
  BY <1>3, <1>4, <1>5, <1>6, Zenon

(* A phase finds the data of its epoch, all of it and nothing older, in    *)
(* the arrays it reads: through the pointers Link has set or the executor  *)
(* has copied, and whatever the order of the parts of a copy.              *)
THEOREM PhasesFindTheirData == Spec => []PhasesReadTheirEpoch
<1>1. BridgeInv => PhasesReadTheirEpoch
  BY ReadsItsEpoch, Zenon
<1>2. QED
  BY <1>1, Invariance, PTL

(* The phases that write are before the copies of what they write.         *)
LEMMA WritersFirst ==
  ASSUME packed \in BOOLEAN, pc \in 1 .. Len(Program) + 1
  PROVE  /\ AtPhase("build") \/ AtPhase("index") =>
              ~ Past(<<"start", "param">>) /\ ~ Past(<<"start", "plan">>)
         /\ AtPhase("initialize") => ~ Past(<<"start", "plan">>)
<1>1. CASE packed
  <2>1. /\ AtPhase("build") => pc = 10 \/ pc = 11
        /\ AtPhase("index") => pc = 12
        /\ AtPhase("initialize") => pc = 16
    <3>1. Len(Program) = 21 /\ pc \in 1 .. 22
      BY <1>1, TpccProgram, TpccPlaces, Zenon
    <3>2. AtPhase("build") => pc = 10 \/ pc = 11
      BY <1>1, <3>1, TpccProgram, SMT DEF AtPhase
    <3>3. AtPhase("index") => pc = 12
      BY <1>1, <3>1, TpccProgram, SMT DEF AtPhase
    <3>4. AtPhase("initialize") => pc = 16
      BY <1>1, <3>1, TpccProgram, SMT DEF AtPhase
    <3>5. QED
      BY <3>2, <3>3, <3>4, Zenon
  <2>2. QED
    BY <1>1, <2>1, TpccPlaces, SMT
<1>2. CASE ~ packed
  <2>1. Len(Program) = 19 /\ pc \in 1 .. 20
    BY <1>2, YcsbProgram, YcsbPlaces, Zenon
  <2>2. /\ ~ AtPhase("build") /\ (AtPhase("index") => pc = 10)
        /\ AtPhase("initialize") => pc = 15
    BY <1>2, <2>1, YcsbProgram, SMT DEF AtPhase
  <2>3. QED
    BY <1>2, <2>2, YcsbPlaces, SMT
<1>3. QED
  BY <1>1, <1>2, Zenon

(* No step writes the source of a copy or, but for the part it copies, its *)
(* destination.                                                            *)
Disturbs(b, p) ==
  ~ /\ mem'[bridge[b].src][p] = mem[bridge[b].src][p]
    /\ p \in bridge'[b].pending => mem'[bridge[b].dest][p] = mem[bridge[b].dest][p]

(* A phase writes one array of its own, which no copy under way reads.     *)
LEMMA WriteUndisturbing ==
  ASSUME BridgeInv, NEW a \in {IndexOutput, InitOutput}, NEW parts, NEW d \in Kinds \X Epochs,
         mem' = Stored(a, parts, d),
         a = IndexOutput => ~ Past(<<"start", "param">>),
         a = InitOutput => ~ Past(<<"start", "plan">>),
         NEW b \in Bridges, NEW p \in bridge[b].pending
  PROVE  ~ Disturbs(b, p)
<1>1. \A c \in Arrays : c # a => mem'[c] = mem[c]
  BY StoredContents
<1>2. Past(<<"start", b>>) /\ Crosses(b)
  BY Zenon DEF BridgeInv, CopiesInTheirPhase
<1>3. /\ bridge[b].src \in Arrays /\ bridge[b].dest \in Arrays /\ Relinked(b)
      /\ bridge[b].dest \in {IndexInput, ParamInput, PlanInput}
  BY <1>2, CopyingBridge, Zenon
<1>4. bridge[b].dest # a
  BY <1>3, ArrayNames, Zenon
<1>5. bridge[b].src # a
  <2>1. \/ b = "input" /\ bridge[b].src = TxnArray(epoch)
        \/ b = "param" /\ bridge[b].src = IndexOutput
        \/ b = "plan" /\ bridge[b].src = InitOutput
    BY <1>2, <1>3, Crossing, Zenon
  <2>2. TxnArray(epoch) # a /\ IndexOutput # InitOutput
    <3>1. TxnArray(epoch) \in TxnArrays
      BY ArrayNames, Zenon DEF BridgeInv, TypeOK
    <3>2. a \notin TxnArrays
      BY ArrayNames, Zenon
    <3>3. QED
      BY <3>1, <3>2, ArrayNames
  <2>3. QED
    BY <1>2, <2>1, <2>2
<1>6. QED
  BY <1>1, <1>3, <1>4, <1>5, Zenon DEF Disturbs

LEMMA StepUndisturbing ==
  ASSUME BridgeInv, [Next]_vars, NEW b \in Bridges, NEW p \in bridge[b].pending
  PROVE  ~ Disturbs(b, p)
<1>1. /\ packed \in BOOLEAN /\ pc \in 1 .. Len(Program) + 1 /\ epoch \in Epochs
      /\ <<"param", epoch>> \in Kinds \X Epochs /\ <<"plan", epoch>> \in Kinds \X Epochs
      /\ IndexOutput # InitOutput
  <2>1. packed \in BOOLEAN /\ pc \in 1 .. Len(Program) + 1 /\ epoch \in Epochs
    BY Zenon DEF BridgeInv, TypeOK
  <2>2. QED
    BY <2>1, DataOfEpoch, ArrayNames, Zenon DEF Kinds
<1>2. Past(<<"start", b>>) /\ Crosses(b)
  BY Zenon DEF BridgeInv, CopiesInTheirPhase
<1>3. CASE mem' = mem
  BY <1>3, Zenon DEF Disturbs
<1>4. CASE GenerateTxns
  <2>1. At(<<"generate", "txns">>)
    BY <1>1, <1>4, PhaseCalls, Zenon DEF GenerateTxns
  <2>2. QED
    BY <1>1, <1>2, <2>1, Order, Zenon
<1>5. CASE BuildPackedTxnArray
  <2>1. ~ Past(<<"start", "param">>) /\ ~ Past(<<"start", "plan">>)
    BY <1>1, <1>5, WritersFirst, Zenon DEF BuildPackedTxnArray
  <2>2. \/ mem' = Stored(IndexOutput, {IndexPart}, <<"param", epoch>>)
        \/ mem' = Stored(InitOutput, {IndexPart}, <<"plan", epoch>>)
    BY <1>5, Zenon DEF BuildPackedTxnArray
  <2>3. QED
    BY <1>1, <2>1, <2>2, WriteUndisturbing, Zenon
<1>6. CASE IndexTxns
  <2>1. ~ Past(<<"start", "param">>)
    BY <1>1, <1>6, WritersFirst, Zenon DEF IndexTxns
  <2>2. mem' = Stored(IndexOutput, Written(IndexOutput), <<"param", epoch>>)
    BY <1>6, Zenon DEF IndexTxns
  <2>3. QED
    BY <1>1, <2>1, <2>2, WriteUndisturbing, Zenon
<1>7. CASE InitializePlan
  <2>1. ~ Past(<<"start", "plan">>)
    BY <1>1, <1>7, WritersFirst, Zenon DEF InitializePlan
  <2>2. mem' = Stored(InitOutput, Written(InitOutput), <<"plan", epoch>>)
    BY <1>7, Zenon DEF InitializePlan
  <2>3. QED
    BY <1>1, <2>1, <2>2, WriteUndisturbing, Zenon
<1>8. ASSUME NEW c \in Bridges, CopyPart(c)
      PROVE  ~ Disturbs(b, p)
  <2>1. PICK q \in bridge[c].pending :
          /\ Past(<<"start", c>>) /\ Crosses(c)
          /\ \A r \in Parts : r # q => mem'[bridge[c].dest][r] = mem[bridge[c].dest][r]
          /\ \A a \in Arrays : a # bridge[c].dest => mem'[a] = mem[a]
          /\ bridge' = [bridge EXCEPT ![c].pending = bridge[c].pending \ {q}]
          /\ bridge[c].pending \ {q} \in SUBSET Parts
    BY <1>8, CopiedPart, Zenon
  <2>2. /\ bridge[b].src # bridge[c].dest /\ bridge[b].src \in Arrays /\ bridge[b].dest \in Arrays
        /\ b # c => bridge[b].dest # bridge[c].dest
    BY <1>2, <1>8, <2>1, CopyingBridge, Zenon
  <2>3. mem'[bridge[b].src] = mem[bridge[b].src]
    BY <2>1, <2>2, Zenon
  <2>4. CASE b # c
    BY <2>1, <2>2, <2>3, <2>4, Zenon DEF Disturbs
  <2>5. CASE b = c
    <3>1. bridge'[c].pending = bridge[c].pending \ {q} /\ TypeOK
      BY <1>8, <2>1, PendingSet, Zenon DEF BridgeInv
    <3>2. p \in Parts
      BY <3>1 DEF TypeOK
    <3>3. p \in bridge'[b].pending => p # q
      BY <2>5, <3>1
    <3>4. p \in bridge'[b].pending => mem'[bridge[b].dest][p] = mem[bridge[b].dest][p]
      BY <2>1, <2>5, <3>2, <3>3
    <3>5. QED
      BY <2>3, <3>4, Zenon DEF Disturbs
  <2>6. QED
    BY <2>4, <2>5, Zenon
<1>9. CASE UNCHANGED vars
  BY <1>3, <1>9 DEF vars
<1>10. CASE ConstructExecutor \/ SubmitOrExecute
  BY <1>3, <1>10 DEF ConstructExecutor, SubmitOrExecute
<1>11. ASSUME NEW c \in Bridges, \/ Link(c) \/ StartTransfer(c) \/ FinishTransfer(c)
                                 \/ StartPackedTransfer(c) \/ FinishPackedTransfer(c)
       PROVE  ~ Disturbs(b, p)
  BY <1>3, <1>11 DEF Link, StartTransfer, FinishTransfer, StartPackedTransfer, FinishPackedTransfer
<1>12. QED
  BY <1>4, <1>5, <1>6, <1>7, <1>8, <1>9, <1>10, <1>11, Zenon DEF Next, HostStep

(* While a stream copies, neither the host nor another stream writes what  *)
(* it has still to copy or where it copies to.                             *)
THEOREM Undisturbed == Spec => CopiesUndisturbed
<1>1. BridgeInv /\ [Next]_vars =>
        \A b \in Bridges : \A p \in bridge[b].pending : ~ Disturbs(b, p)
  BY StepUndisturbing, Zenon
<1>2. BridgeInv /\ [Next]_vars =>
        [\A b \in Bridges : \A p \in bridge[b].pending :
           /\ mem'[bridge[b].src][p] = mem[bridge[b].src][p]
           /\ p \in bridge'[b].pending =>
                mem'[bridge[b].dest][p] = mem[bridge[b].dest][p]]_vars
  BY <1>1, Zenon DEF Disturbs
<1>3. QED
  BY <1>2, Invariance, PTL DEF Spec, CopiesUndisturbed

=============================================================================
