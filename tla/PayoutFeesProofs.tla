------------------------------ MODULE PayoutFeesProofs ------------------------------
(***************************************************************************)
(* Theorems about gas, fees and the hot wallet (PayoutFees), for every      *)
(* configuration, every answer of the node and any number of blocks,        *)
(* deposits, attempts and faults.                                           *)
(***************************************************************************)
EXTENDS PayoutFees, TLAPS

-----------------------------------------------------------------------------
(* Arithmetic. *)

\* A quotient, by what it is multiplied with.
LEMMA Quotient ==
  ASSUME NEW n \in Nat, NEW d \in Nat \ {0}
  PROVE  /\ n \div d \in Nat
         /\ d * (n \div d) <= n
         /\ n < d * (n \div d) + d
  OBVIOUS

\* The larger factor has the larger product.
LEMMA ProductGrows ==
  ASSUME NEW a \in Nat, NEW m \in Nat, NEW n \in Nat, m <= n
  PROVE  a * m \in Nat /\ a * n \in Nat /\ a * m <= a * n
<1>1. PICK k \in Nat : n = m + k
  <2>1. n - m \in Nat /\ n = m + (n - m)
    OBVIOUS
  <2>2. QED
    BY <2>1
<1>2. a * n = a * m + a * k /\ a * k \in Nat /\ a * m \in Nat
  BY <1>1
<1>3. QED
  BY <1>2

LEMMA RemainderOfSmall ==
  ASSUME NEW n \in Nat, NEW d \in Nat, n < d
  PROVE  n % d = n
  OBVIOUS

\* addGasLimitBuffer: what it returns, unless it refuses, is the gas with the buffer,
\* rounded down, and never less than the gas: the multiplication does not overflow.
LEMMA BufferCovers ==
  ASSUME NEW gas \in Nat, NEW percent \in Nat, 100 + percent < Word
  PROVE  /\ Buffered(gas, percent) \in 0 .. (Word - 1)
         /\ Buffered(gas, percent) # 0 =>
              /\ Buffered(gas, percent) >= gas
              /\ 100 * Buffered(gas, percent) <= gas * (100 + percent)
<1> DEFINE q == 100 + percent
           n == gas * q
<1>1. q \in Nat \ {0} /\ n \in Nat /\ Word \in Nat /\ Word - 1 \in Nat /\ q < Word
  BY FeesAssumption
<1>2. CASE gas > (Word - 1) \div q
  BY <1>1, <1>2 DEF Buffered
<1>3. CASE ~(gas > (Word - 1) \div q)
  <2>1. q * ((Word - 1) \div q) <= Word - 1 /\ (Word - 1) \div q \in Nat
    BY <1>1, Quotient
  <2>2. q * gas <= q * ((Word - 1) \div q)
    BY <1>1, <1>3, <2>1, ProductGrows
  <2>3. n < Word
    <3>1. n = q * gas
      BY <1>1
    <3>2. QED
      BY <1>1, <2>1, <2>2, <3>1
  <2>4. n % Word = n
    BY <1>1, <2>3, RemainderOfSmall
  <2>5. Buffered(gas, percent) = n \div 100
    BY <1>3, <2>4 DEF Buffered
  <2>6. /\ n \div 100 \in Nat /\ 100 * (n \div 100) <= n /\ n < 100 * (n \div 100) + 100
    BY <1>1, Quotient
  <2>7. n >= 100 * gas
    <3>1. n = 100 * gas + gas * percent /\ gas * percent \in Nat
      OBVIOUS
    <3>2. QED
      BY <3>1
  <2> HIDE DEF n, q
  <2>8. n \div 100 >= gas
    BY <1>1, <2>6, <2>7
  <2>9. n \div 100 <= Word - 1
    BY <1>1, <2>3, <2>6
  <2>10. QED
    BY <1>1, <2>5, <2>6, <2>8, <2>9 DEF n, q
<1>4. QED
  BY <1>2, <1>3

LEMMA MaxOfTwo ==
  ASSUME NEW m \in Nat, NEW n \in Nat
  PROVE  Max({m, n}) = IF m >= n THEN m ELSE n
  BY DEF Max

LEMMA MinOfTwo ==
  ASSUME NEW m \in Nat, NEW n \in Nat
  PROVE  Min({m, n}) = IF m <= n THEN m ELSE n
  BY DEF Min

-----------------------------------------------------------------------------
(* The base fee. *)

\* One more block, up or down, keeps a base fee within what it may have become.
LEMMA GrowsOn ==
  ASSUME NEW fee \in Nat, NEW b \in Nat, b >= MinBaseFee,
         NEW k \in 0 .. 4, Grown(fee, b, k),
         NEW fee2 \in {fee + Max({1, fee \div 8}), MinBaseFee}
  PROVE  Grown(fee2, b, k + 1)
<1>1. MinBaseFee \in Nat /\ MinBaseFee >= 5
  BY FeesAssumption
<1>2. /\ Percent[1] = 100 /\ Percent[2] = 113 /\ Percent[3] = 128
      /\ Percent[4] = 144 /\ Percent[5] = 162 /\ Percent[6] = 183
  BY DEF Percent
<1>3. k = 0 \/ k = 1 \/ k = 2 \/ k = 3 \/ k = 4
  OBVIOUS
<1> DEFINE e == fee \div 8
<1>4. e \in Nat /\ 8 * e <= fee /\ fee < 8 * e + 8
  BY Quotient
<1> HIDE DEF e
<1>5. \/ fee2 = fee + 1 /\ e <= 1
      \/ fee2 = fee + e /\ e >= 1
      \/ fee2 = MinBaseFee
  BY <1>4, MaxOfTwo DEF e
<1>6. CASE b >= 8
  <2>1. 100 * fee <= Percent[k + 1] * b
    BY <1>6 DEF Grown
  <2>2. 100 * fee2 <= Percent[k + 2] * b
    <3>1. CASE fee2 = MinBaseFee
      BY <1>1, <1>2, <1>3, <3>1
    <3>2. CASE fee2 = fee + e
      BY <1>2, <1>3, <1>4, <2>1, <3>2
    <3>3. CASE fee2 = fee + 1 /\ e = 0
      BY <1>2, <1>3, <1>4, <1>6, <3>3
    <3>4. QED
      BY <1>4, <1>5, <3>1, <3>2, <3>3
  <2>3. QED
    BY <1>6, <2>2 DEF Grown
<1>7. CASE b < 8
  <2>1. fee <= b + k
    BY <1>7 DEF Grown
  <2>2. e <= 1
    BY <1>4, <1>7, <2>1
  <2>3. fee2 <= b + (k + 1)
    BY <1>1, <1>4, <1>5, <2>1, <2>2
  <2>4. QED
    BY <1>7, <2>3 DEF Grown
<1>8. QED
  BY <1>6, <1>7

\* In five blocks a base fee at most doubles.
LEMMA FiveBlocksDouble ==
  ASSUME NEW fee \in Nat, NEW b \in Nat, b >= MinBaseFee,
         NEW k \in 0 .. 5, Grown(fee, b, k)
  PROVE  fee <= 2 * b
<1>1. MinBaseFee \in Nat /\ MinBaseFee >= 5
  BY FeesAssumption
<1>2. /\ Percent[1] = 100 /\ Percent[2] = 113 /\ Percent[3] = 128
      /\ Percent[4] = 144 /\ Percent[5] = 162 /\ Percent[6] = 183
  BY DEF Percent
<1>3. k = 0 \/ k = 1 \/ k = 2 \/ k = 3 \/ k = 4 \/ k = 5
  OBVIOUS
<1>4. QED
  BY <1>1, <1>2, <1>3 DEF Grown
-----------------------------------------------------------------------------
(* The invariant. *)

Draft == [gas : 0 .. (Word - 1), estimate : Nat, base : Nat, cap : Nat, tip : Nat]

\* What must hold and why it holds.
Inv == FeesInv /\ SignedIsAffordable

LEMMA Constants ==
  /\ config \in Configs => /\ config.native \in BOOLEAN
                           /\ config.bufferPercent \in Nat
                           /\ 100 + config.bufferPercent < Word
  /\ Value \in Nat /\ Word \in Nat /\ MinBaseFee \in Nat
  BY FeesAssumption DEF Config

LEMMA DraftType ==
  ASSUME NEW d \in Draft
  PROVE  /\ d.gas \in Nat /\ d.estimate \in Nat /\ d.base \in Nat
         /\ d.cap \in Nat /\ d.tip \in Nat /\ d.gas \in 0 .. (Word - 1)
  BY FeesAssumption DEF Draft

LEMMA NothingType == Nothing \in Draft
  BY FeesAssumption DEF Nothing, Draft

LEMMA FundsNeeded ==
  ASSUME TypeOK, NEW d \in Draft
  PROVE  d.gas * d.cap \in Nat /\ Required(d.gas, d.cap) \in Nat
  BY DraftType, Constants DEF Required, TypeOK

LEMMA InitInv == Init => Inv
<1> SUFFICES ASSUME Init PROVE Inv
  OBVIOUS
<1>1. TypeOK
  <2>1. /\ config \in Configs /\ baseFee \in Nat /\ tip \in Tips /\ estimate \in Estimates
        /\ funds \in Nat /\ tokens \in Nat /\ message \in Message /\ alerted \in BOOLEAN
    BY FeesAssumption DEF Init, NoMessage, Text, Message
  <2>2. /\ age \in 0 .. MaxBlocks /\ blocks \in 0 .. MaxBlocks
        /\ attempts \in 0 .. MaxAttempts /\ deposits \in 0 .. MaxDeposits
        /\ faults \in 0 .. MaxFaults
    BY FeesAssumption DEF Init
  <2>3. {draft, signed} \subseteq Draft
    BY NothingType DEF Init
  <2>4. QED
    BY <2>1, <2>2, <2>3 DEF Init, TypeOK, Draft
<1>2. DraftInv /\ SignedInv /\ BoundsInv /\ SignedIsAffordable
  BY FeesAssumption DEF Init, DraftInv, SignedInv, BoundsInv, SignedIsAffordable
<1>3. QED
  BY <1>1, <1>2 DEF Inv, FeesInv

\* A refusal leaves nothing but its text.
LEMMA RefuseInv ==
  ASSUME Inv, NEW text \in Message, Refuse(text), Unmoved,
         pc \notin {"pending", "signed", "over"}, faults' \in 0 .. MaxFaults
  PROVE  Inv'
<1>1. /\ draft' = Nothing /\ age' = 0 /\ message' = text /\ pc' = "pending"
      /\ alerted' \in BOOLEAN
      /\ UNCHANGED <<signed, attempts>>
      /\ UNCHANGED <<config, baseFee, tip, estimate, funds, tokens, deposits, blocks>>
  BY DEF Refuse, AfterRefusal, Unmoved, chainVars
<1>2. TypeOK'
  BY <1>1, NothingType, FeesAssumption DEF Inv, FeesInv, TypeOK, Draft
<1>3. DraftInv' /\ SignedInv'
  BY <1>1 DEF Inv, FeesInv, DraftInv, SignedInv
<1>4. BoundsInv' /\ SignedIsAffordable'
  BY <1>1 DEF Inv, FeesInv, TypeOK, BoundsInv, SignedIsAffordable
<1>5. QED
  BY <1>2, <1>3, <1>4 DEF Inv, FeesInv

\* Before the signature, a step from one read to the next.
Reads == {"payout", "estimate", "header", "tip", "gas"}

LEMMA ReadStep ==
  ASSUME Inv, NEW label \in Reads, pc \in {"pending"} \cup Reads,
         UNCHANGED <<config, baseFee, tip, estimate, funds, tokens, deposits, blocks>>,
         UNCHANGED <<signed, message, alerted, attempts, faults>>,
         pc' = label, draft' \in Draft,
         age' = age \/ age' = 0
  PROVE  TypeOK' /\ SignedInv' /\ BoundsInv' /\ SignedIsAffordable' /\ baseFee' >= MinBaseFee
<1>1. age' \in 0 .. MaxBlocks /\ age' <= blocks
  BY FeesAssumption DEF Inv, FeesInv, TypeOK, BoundsInv
<1>2. TypeOK'
  BY <1>1 DEF Inv, FeesInv, TypeOK, Draft, Reads
<1>3. SignedInv' /\ SignedIsAffordable'
  BY DEF Inv, FeesInv, SignedInv, SignedIsAffordable, Reads
<1>4. BoundsInv' /\ baseFee' >= MinBaseFee
  BY <1>1 DEF Inv, FeesInv, BoundsInv, DraftInv, Reads
<1>5. QED
  BY <1>2, <1>3, <1>4

LEMMA ClaimInv ==
  ASSUME Inv, Claim
  PROVE  Inv'
<1>1. /\ pc = "pending" /\ pc' = "payout" /\ draft' = draft /\ age' = age
      /\ UNCHANGED <<config, baseFee, tip, estimate, funds, tokens, deposits, blocks>>
      /\ UNCHANGED <<signed, message, alerted, attempts, faults>>
  BY DEF Claim, Goto, Unmoved, chainVars, rowVars
<1>2. draft' \in Draft
  BY <1>1 DEF Inv, FeesInv, TypeOK, Draft
<1>3. TypeOK' /\ SignedInv' /\ BoundsInv' /\ SignedIsAffordable' /\ baseFee' >= MinBaseFee
  BY <1>1, <1>2, ReadStep DEF Reads
<1>4. DraftInv'
  BY <1>1, <1>3 DEF Inv, FeesInv, DraftInv
<1>5. QED
  BY <1>3, <1>4 DEF Inv, FeesInv

LEMMA ShortageText ==
  ASSUME NEW kind \in {"none", "other", "payout", "gas"}, NEW b \in Nat, NEW r \in Nat
  PROVE  Text(kind, b, r) \in Message
  BY DEF Text, Message

LEMMA CheckPayoutInv ==
  ASSUME Inv, CheckPayout
  PROVE  Inv'
<1> DEFINE balance == IF config.native THEN funds ELSE tokens
<1>1. pc = "payout" /\ UNCHANGED faults /\ Unmoved
  BY DEF CheckPayout, NoFault
<1>2. balance \in Nat /\ Value \in Nat /\ faults' \in 0 .. MaxFaults
  BY <1>1, Constants DEF Inv, FeesInv, TypeOK
<1>3. CASE balance < Value
  <2>1. Text("payout", balance, Value) \in Message
    BY <1>2, ShortageText
  <2>2. Refuse(Text("payout", balance, Value))
    BY <1>3 DEF CheckPayout
  <2>3. QED
    BY <1>1, <1>2, <2>1, <2>2, RefuseInv
<1>4. CASE ~(balance < Value)
  <2>1. /\ pc' = "estimate" /\ draft' = draft /\ age' = age
        /\ UNCHANGED <<config, baseFee, tip, estimate, funds, tokens, deposits, blocks>>
        /\ UNCHANGED <<signed, message, alerted, attempts, faults>>
    BY <1>1, <1>4 DEF CheckPayout, Goto, Unmoved, chainVars, rowVars
  <2>2. draft' \in Draft
    BY <2>1 DEF Inv, FeesInv, TypeOK, Draft
  <2>3. TypeOK' /\ SignedInv' /\ BoundsInv' /\ SignedIsAffordable' /\ baseFee' >= MinBaseFee
    BY <1>1, <2>1, <2>2, ReadStep DEF Reads
  <2>4. config.native \/ tokens >= Value
    BY <1>2, <1>4
  <2>5. DraftInv'
    BY <1>1, <2>1, <2>3, <2>4 DEF Inv, FeesInv, DraftInv
  <2>6. QED
    BY <2>3, <2>5 DEF Inv, FeesInv
<1>5. QED
  BY <1>3, <1>4

\* The gas limit covers the estimate from here on.
LEMMA EstimateGasInv ==
  ASSUME Inv, EstimateGas
  PROVE  Inv'
<1> DEFINE limit == Buffered(estimate, config.bufferPercent)
<1>1. pc = "estimate" /\ UNCHANGED faults /\ Unmoved /\ faults' \in 0 .. MaxFaults
      /\ pc \notin {"pending", "signed", "over"}
  BY DEF EstimateGas, NoFault, Inv, FeesInv, TypeOK
<1>2. /\ limit \in 0 .. (Word - 1)
      /\ limit # 0 => /\ limit >= estimate
                      /\ 100 * limit <= estimate * (100 + config.bufferPercent)
      /\ estimate \in Nat
  <2>1. estimate \in Nat
    BY FeesAssumption DEF Inv, FeesInv, TypeOK
  <2>2. config.bufferPercent \in Nat /\ 100 + config.bufferPercent < Word
    BY Constants DEF Inv, FeesInv, TypeOK
  <2>3. QED
    BY <2>1, <2>2, BufferCovers
<1>3. CASE GasRefused(limit)
  <2>1. Other \in Message /\ Refuse(Other)
    BY <1>3, ShortageText DEF EstimateGas, Other
  <2>2. QED
    BY <1>1, <2>1, RefuseInv
<1>4. CASE ~GasRefused(limit)
  <2>1. /\ pc' = "header" /\ age' = age
        /\ draft' = [draft EXCEPT !.gas = limit, !.estimate = estimate]
        /\ UNCHANGED <<config, baseFee, tip, estimate, funds, tokens, deposits, blocks>>
        /\ UNCHANGED <<signed, message, alerted, attempts, faults>>
    BY <1>1, <1>4 DEF EstimateGas, Goto, Unmoved, chainVars, rowVars
  <2>2. limit # 0
    BY <1>4 DEF GasRefused
  <2> HIDE DEF limit
  <2>3. draft' \in Draft /\ draft'.gas = limit /\ draft'.estimate = estimate
    BY <1>2, <2>1 DEF Inv, FeesInv, TypeOK, Draft
  <2>4. TypeOK' /\ SignedInv' /\ BoundsInv' /\ SignedIsAffordable' /\ baseFee' >= MinBaseFee
    BY <1>1, <2>1, <2>3, ReadStep DEF Reads
  <2>5. Covers(draft)'
    BY <1>2, <2>1, <2>2, <2>3 DEF Covers
  <2>6. DraftInv'
    BY <1>1, <2>1, <2>4, <2>5 DEF Inv, FeesInv, DraftInv
  <2>7. QED
    BY <2>4, <2>6 DEF Inv, FeesInv
<1>5. QED
  BY <1>3, <1>4

\* The header's base fee is the base fee of now.
LEMMA ReadHeaderInv ==
  ASSUME Inv, ReadHeader
  PROVE  Inv'
<1>1. /\ pc = "header" /\ pc' = "tip" /\ age' = 0
      /\ draft' = [draft EXCEPT !.base = baseFee]
      /\ UNCHANGED <<config, baseFee, tip, estimate, funds, tokens, deposits, blocks>>
      /\ UNCHANGED <<signed, message, alerted, attempts, faults>>
  BY DEF ReadHeader, Unmoved, chainVars, rowVars
<1>2. draft \in Draft /\ baseFee \in Nat /\ baseFee >= MinBaseFee /\ Covers(draft)
  BY <1>1 DEF Inv, FeesInv, TypeOK, DraftInv, Draft
<1>3. /\ draft' \in Draft /\ draft'.base = baseFee
      /\ draft'.gas = draft.gas /\ draft'.estimate = draft.estimate
  BY <1>1, <1>2 DEF Draft
<1>4. TypeOK' /\ SignedInv' /\ BoundsInv' /\ SignedIsAffordable' /\ baseFee' >= MinBaseFee
  BY <1>1, <1>3, ReadStep DEF Reads
<1>5. Covers(draft)'
  BY <1>1, <1>2, <1>3 DEF Covers
<1>6. BaseFits(draft)'
  <2>1. Grown(baseFee, baseFee, 0)
    BY <1>2 DEF Grown, Percent
  <2>2. QED
    BY <1>1, <1>2, <1>3, <2>1 DEF BaseFits
<1>7. DraftInv'
  BY <1>1, <1>4, <1>5, <1>6 DEF Inv, FeesInv, DraftInv
<1>8. QED
  BY <1>4, <1>7 DEF Inv, FeesInv

LEMMA SuggestTipInv ==
  ASSUME Inv, SuggestTip
  PROVE  Inv'
<1>1. pc = "tip" /\ UNCHANGED faults /\ Unmoved /\ faults' \in 0 .. MaxFaults
      /\ pc \notin {"pending", "signed", "over"}
  BY DEF SuggestTip, NoFault, Inv, FeesInv, TypeOK
<1>2. CASE FeesRefused(draft.base, tip)
  <2>1. Other \in Message /\ Refuse(Other)
    BY <1>2, ShortageText DEF SuggestTip, Other
  <2>2. QED
    BY <1>1, <2>1, RefuseInv
<1>3. CASE ~FeesRefused(draft.base, tip)
  <2>1. /\ pc' = "gas" /\ age' = age
        /\ draft' = [draft EXCEPT !.tip = tip, !.cap = 2 * draft.base + tip]
        /\ UNCHANGED <<config, baseFee, tip, estimate, funds, tokens, deposits, blocks>>
        /\ UNCHANGED <<signed, message, alerted, attempts, faults>>
    BY <1>1, <1>3 DEF SuggestTip, FeeCap, Goto, Unmoved, chainVars, rowVars
  <2>2. draft \in Draft /\ tip \in Nat /\ Covers(draft) /\ BaseFits(draft)
    BY <1>1, FeesAssumption DEF Inv, FeesInv, TypeOK, DraftInv, Draft
  <2>3. 2 * draft.base + tip \in Nat
    BY <2>2, DraftType
  <2>4. /\ draft' \in Draft /\ draft'.base = draft.base
        /\ draft'.tip = tip /\ draft'.cap = 2 * draft.base + tip
        /\ draft'.gas = draft.gas /\ draft'.estimate = draft.estimate
    BY <2>1, <2>2, <2>3 DEF Draft
  <2>5. TypeOK' /\ SignedInv' /\ BoundsInv' /\ SignedIsAffordable' /\ baseFee' >= MinBaseFee
    BY <1>1, <2>1, <2>4, ReadStep DEF Reads
  <2>6. Covers(draft)' /\ BaseFits(draft)' /\ CapFits(draft)'
    BY <2>1, <2>2, <2>4 DEF Covers, BaseFits, CapFits
  <2>7. DraftInv'
    BY <1>1, <2>1, <2>5, <2>6 DEF Inv, FeesInv, DraftInv
  <2>8. QED
    BY <2>5, <2>7 DEF Inv, FeesInv
<1>4. QED
  BY <1>2, <1>3

\* The last balance that is read covers whatever the block may take.
LEMMA CheckGasInv ==
  ASSUME Inv, CheckGas
  PROVE  Inv'
<1> DEFINE required == Required(draft.gas, draft.cap)
<1>1. pc = "gas" /\ UNCHANGED faults /\ Unmoved /\ faults' \in 0 .. MaxFaults
      /\ pc \notin {"pending", "signed", "over"}
  BY DEF CheckGas, NoFault, Inv, FeesInv, TypeOK
<1>2. draft \in Draft /\ required \in Nat /\ funds \in Nat
  <2>1. draft \in Draft /\ funds \in Nat /\ TypeOK
    BY DEF Inv, FeesInv, TypeOK, Draft
  <2>2. QED
    BY <2>1, FundsNeeded
<1>3. CASE funds < required
  <2>1. Text("gas", funds, required) \in Message /\ Refuse(Text("gas", funds, required))
    BY <1>2, <1>3, ShortageText DEF CheckGas
  <2>2. QED
    BY <1>1, <2>1, RefuseInv
<1>4. CASE ~(funds < required)
  <2>1. /\ pc' = "signed" /\ age' = age /\ signed' = draft /\ draft' = Nothing
        /\ attempts' = attempts + 1
        /\ UNCHANGED <<config, baseFee, tip, estimate, funds, tokens, deposits, blocks>>
        /\ UNCHANGED <<message, alerted, faults>>
    BY <1>1, <1>4 DEF CheckGas, Unmoved, chainVars
  <2>2. attempts < MaxAttempts /\ attempts' \in 0 .. MaxAttempts
    BY <1>1, <2>1, FeesAssumption DEF Inv, FeesInv, TypeOK, BoundsInv
  <2>3. TypeOK'
    BY <1>2, <2>1, <2>2, NothingType DEF Inv, FeesInv, TypeOK, Draft
  <2>4. SignedInv'
    <3>1. Covers(draft) /\ BaseFits(draft) /\ CapFits(draft)
      BY <1>1 DEF Inv, FeesInv, DraftInv
    <3>2. QED
      BY <2>1, <3>1 DEF SignedInv, Covers, BaseFits, CapFits
  <2>5. SignedIsAffordable'
    <3>1. funds >= required
      BY <1>2, <1>4
    <3>2. config.native \/ tokens >= Value
      BY <1>1 DEF Inv, FeesInv, DraftInv
    <3>3. QED
      BY <2>1, <3>1, <3>2 DEF SignedIsAffordable, Required
  <2>6. DraftInv' /\ BoundsInv'
    BY <2>1 DEF Inv, FeesInv, DraftInv, BoundsInv
  <2>7. QED
    BY <2>3, <2>4, <2>5, <2>6 DEF Inv, FeesInv
<1>5. QED
  BY <1>3, <1>4

\* A failed read, or a crash, while the payout is being built.
LEMMA FaultInv ==
  ASSUME Inv, ReadFails \/ Crash
  PROVE  Inv'
<1>1. /\ pc \notin {"pending", "signed", "over"}
      /\ Unmoved /\ faults' \in 0 .. MaxFaults
  BY FeesAssumption DEF ReadFails, Crash, Fault, Inv, FeesInv, TypeOK
<1>2. CASE ReadFails
  <2>1. Other \in Message /\ Refuse(Other)
    BY <1>2, ShortageText DEF ReadFails, Other
  <2>2. QED
    BY <1>1, <2>1, RefuseInv
<1>3. CASE Crash
  <2>1. /\ draft' = Nothing /\ age' = 0 /\ pc' = "pending"
        /\ UNCHANGED <<signed, message, alerted, attempts>>
        /\ UNCHANGED <<config, baseFee, tip, estimate, funds, tokens, deposits, blocks>>
    BY <1>1, <1>3 DEF Crash, Unmoved, chainVars, rowVars
  <2>2. TypeOK'
    BY <1>1, <2>1, NothingType, FeesAssumption DEF Inv, FeesInv, TypeOK, Draft
  <2>3. DraftInv' /\ SignedInv' /\ BoundsInv' /\ SignedIsAffordable'
    BY <1>1, <2>1 DEF Inv, FeesInv, TypeOK, DraftInv, SignedInv, BoundsInv,
                      SignedIsAffordable
  <2>4. QED
    BY <2>2, <2>3 DEF Inv, FeesInv
<1>4. QED
  BY <1>2, <1>3

-----------------------------------------------------------------------------
(* The chain. *)

\* A block ages what was read of the header.
LEMMA BlockInv ==
  ASSUME Inv, Block
  PROVE  Inv'
<1> DEFINE aged == pc \in {"tip", "gas", "signed"}
<1>1. /\ blocks < MaxBlocks /\ blocks' = blocks + 1
      /\ age' = IF aged THEN age + 1 ELSE 0
      /\ baseFee' \in {baseFee + Max({1, baseFee \div 8}), MinBaseFee}
      /\ UNCHANGED <<config, tip, estimate, funds, tokens, deposits, pc, draft, signed,
                     message, alerted, attempts, faults>>
  BY DEF Block, rowVars
<1>2. /\ baseFee \in Nat /\ baseFee >= MinBaseFee /\ MinBaseFee \in Nat
      /\ blocks \in Nat /\ age \in Nat /\ age <= blocks /\ MaxBlocks \in Nat
      /\ TypeOK /\ DraftInv /\ SignedInv /\ BoundsInv /\ SignedIsAffordable
  BY FeesAssumption DEF Inv, FeesInv, TypeOK, DraftInv, BoundsInv
<1>3. baseFee' \in Nat /\ baseFee' >= MinBaseFee
  <2>1. baseFee \div 8 \in Nat
    BY <1>2, Quotient
  <2>2. Max({1, baseFee \div 8}) \in Nat
    BY <2>1, MaxOfTwo
  <2> HIDE DEF aged
  <2>3. QED
    BY <1>1, <1>2, <2>2
<1>4. age' \in 0 .. MaxBlocks /\ age' <= blocks' /\ blocks' \in 0 .. MaxBlocks
  BY <1>1, <1>2
<1>5. TypeOK'
  BY <1>1, <1>3, <1>4 DEF Inv, FeesInv, TypeOK
<1>6. ASSUME NEW d \in Draft, BaseFits(d), aged
      PROVE  /\ d.base >= MinBaseFee
             /\ age' <= 5 => Grown(baseFee', d.base, age')
  <2>1. d.base \in Nat /\ d.base >= MinBaseFee
    BY <1>6, DraftType DEF BaseFits
  <2>2. ASSUME age' <= 5 PROVE Grown(baseFee', d.base, age')
    <3>1. age \in 0 .. 4 /\ age' = age + 1
      BY <1>1, <1>2, <1>6, <2>2
    <3>2. Grown(baseFee, d.base, age)
      BY <1>6, <3>1 DEF BaseFits
    <3>3. QED
      BY <1>1, <1>2, <2>1, <3>1, <3>2, GrowsOn
  <2>3. QED
    BY <2>1, <2>2
<1>7. draft \in Draft /\ signed \in Draft
  BY <1>2 DEF TypeOK, Draft
<1>8. pc \in {"tip", "gas"} => BaseFits(draft)'
  BY <1>1, <1>2, <1>6, <1>7 DEF DraftInv, BaseFits
<1>9. pc = "signed" => BaseFits(signed)'
  BY <1>1, <1>2, <1>6, <1>7 DEF SignedInv, BaseFits
<1>10. DraftInv'
  BY <1>1, <1>2, <1>3, <1>8 DEF DraftInv, Covers, CapFits
<1>11. SignedInv'
  BY <1>1, <1>2, <1>9 DEF SignedInv, Covers, CapFits
<1>12. BoundsInv' /\ SignedIsAffordable'
  BY <1>1, <1>2, <1>4 DEF BoundsInv, SignedIsAffordable
<1>13. QED
  BY <1>5, <1>10, <1>11, <1>12 DEF Inv, FeesInv

\* Money that comes in and answers that change take nothing from what was checked.
LEMMA NodeInv ==
  ASSUME Inv, NodeMoves \/ Deposit
  PROVE  Inv'
<1>1. /\ UNCHANGED <<config, baseFee, pc, draft, signed, message, alerted, attempts, age,
                     blocks, faults>>
      /\ tip' \in Tips /\ estimate' \in Estimates
  BY DEF NodeMoves, Deposit, rowVars, Inv, FeesInv, TypeOK
<1>2. /\ funds' \in Nat /\ tokens' \in Nat /\ funds' >= funds /\ tokens' >= tokens
      /\ deposits' \in 0 .. MaxDeposits
  <2>1. funds \in Nat /\ tokens \in Nat /\ deposits \in 0 .. MaxDeposits
        /\ Fundings \subseteq Nat /\ MaxDeposits \in Nat
    BY FeesAssumption DEF Inv, FeesInv, TypeOK
  <2>2. CASE NodeMoves
    BY <2>1, <2>2 DEF NodeMoves
  <2>3. CASE Deposit
    <3>1. PICK amount \in Fundings \ {0} :
             \/ funds' = funds + amount /\ UNCHANGED tokens
             \/ tokens' = tokens + amount /\ UNCHANGED funds
      BY <2>3 DEF Deposit
    <3>2. deposits' \in 0 .. MaxDeposits
      BY <2>1, <2>3 DEF Deposit
    <3>3. QED
      BY <2>1, <3>1, <3>2
  <2>4. QED
    BY <2>2, <2>3
<1>3. TypeOK'
  BY <1>1, <1>2 DEF Inv, FeesInv, TypeOK
<1>4. Value \in Nat /\ funds \in Nat /\ tokens \in Nat
      /\ TypeOK /\ DraftInv /\ SignedInv /\ BoundsInv /\ SignedIsAffordable
  BY FeesAssumption DEF Inv, FeesInv, TypeOK
<1>5. DraftInv'
  <2>1. config.native \/ tokens >= Value => config.native \/ tokens' >= Value
    BY <1>2, <1>4
  <2>2. QED
    BY <1>1, <1>4, <2>1 DEF DraftInv, Covers, BaseFits, CapFits
<1>6. SignedInv' /\ BoundsInv'
  BY <1>1, <1>4 DEF SignedInv, BoundsInv, Covers, BaseFits, CapFits
<1>7. SignedIsAffordable'
  <2>1. signed.gas * signed.cap + (IF config.native THEN Value ELSE 0) \in Nat
    BY <1>4, FundsNeeded DEF TypeOK, Draft, Required
  <2>2. QED
    BY <1>1, <1>2, <1>4, <2>1 DEF SignedIsAffordable
<1>8. QED
  BY <1>3, <1>5, <1>6, <1>7 DEF Inv, FeesInv

\* The block takes no more than the cap for each unit of gas, and the value.
LEMMA MineInv ==
  ASSUME Inv, Mine
  PROVE  Inv'
<1> DEFINE price == Min({signed.cap, baseFee + signed.tip})
           cost == signed.gas * price
<1>1. PICK ok \in BOOLEAN :
         /\ funds' = funds - cost - (IF ok /\ config.native THEN Value ELSE 0)
         /\ tokens' = tokens - (IF ok /\ ~config.native THEN Value ELSE 0)
  BY DEF Mine
<1>2. /\ pc = "signed" /\ pc' \in {"pending", "over"}
      /\ pc' = "pending" => attempts < MaxAttempts
      /\ message' = NoMessage /\ alerted' = FALSE /\ signed' = Nothing /\ age' = 0
      /\ UNCHANGED <<config, baseFee, tip, estimate, deposits, draft, attempts, blocks,
                     faults>>
  BY DEF Mine
<1>3. /\ signed \in Draft /\ baseFee \in Nat /\ funds \in Nat /\ tokens \in Nat
      /\ Value \in Nat
      /\ TypeOK /\ DraftInv /\ BoundsInv
  BY FeesAssumption DEF Inv, FeesInv, TypeOK, Draft
<1>4. price \in Nat /\ price <= signed.cap
  BY <1>3, DraftType, MinOfTwo
<1>5. /\ cost \in Nat /\ signed.gas * signed.cap \in Nat
      /\ cost <= signed.gas * signed.cap
  <2> HIDE DEF price
  <2>1. signed.gas \in Nat /\ signed.cap \in Nat
    BY <1>3, DraftType
  <2>2. QED
    BY <1>4, <2>1, ProductGrows
<1>6. /\ funds >= signed.gas * signed.cap + (IF config.native THEN Value ELSE 0)
      /\ config.native \/ tokens >= Value
  BY <1>2 DEF Inv, SignedIsAffordable
<1> HIDE DEF price, cost
<1>7. funds' \in Nat
  <2>1. CASE config.native
    BY <1>1, <1>3, <1>5, <1>6, <2>1
  <2>2. CASE ~config.native
    BY <1>1, <1>3, <1>5, <1>6, <2>2
  <2>3. QED
    BY <2>1, <2>2
<1>8. tokens' \in Nat
  BY <1>1, <1>3, <1>6
<1>9. TypeOK'
  <2>1. NoMessage \in Message
    BY ShortageText DEF NoMessage
  <2>2. {draft', signed'} \subseteq Draft
    BY <1>2, <1>3, NothingType DEF TypeOK, Draft
  <2>3. age' \in 0 .. MaxBlocks /\ alerted' \in BOOLEAN
    <3>1. age' = 0 /\ MaxBlocks \in Nat
      BY <1>2, FeesAssumption
    <3>2. age' \in 0 .. MaxBlocks
      BY <3>1
    <3>3. alerted' \in BOOLEAN
      BY <1>2
    <3>4. QED
      BY <3>2, <3>3
  <2>4. /\ config' \in Configs /\ baseFee' \in Nat /\ tip' \in Tips
        /\ estimate' \in Estimates
        /\ pc' \in {"pending", "payout", "estimate", "header", "tip", "gas", "signed", "over"}
        /\ blocks' \in 0 .. MaxBlocks
        /\ attempts' \in 0 .. MaxAttempts /\ deposits' \in 0 .. MaxDeposits
        /\ faults' \in 0 .. MaxFaults
    BY <1>2, <1>3 DEF TypeOK
  <2>5. message' \in Message
    BY <1>2, <2>1
  <2>6. QED
    BY <1>7, <1>8, <2>2, <2>3, <2>4, <2>5 DEF TypeOK, Draft
<1>10. DraftInv' /\ SignedInv' /\ BoundsInv' /\ SignedIsAffordable'
  BY <1>2, <1>3 DEF DraftInv, SignedInv, BoundsInv, SignedIsAffordable, TypeOK
<1>11. QED
  BY <1>9, <1>10 DEF Inv, FeesInv

LEMMA StutterInv ==
  ASSUME Inv, UNCHANGED vars
  PROVE  Inv'
  BY DEF Inv, FeesInv, TypeOK, DraftInv, SignedInv, BoundsInv, SignedIsAffordable,
         Covers, CapFits, BaseFits, vars, chainVars, rowVars

LEMMA StepInv == Inv /\ [Next]_vars => Inv'
<1> SUFFICES ASSUME Inv, [Next]_vars PROVE Inv'
  OBVIOUS
<1>1. CASE Build
  BY <1>1, ClaimInv, CheckPayoutInv, EstimateGasInv, ReadHeaderInv, SuggestTipInv,
     CheckGasInv DEF Build
<1>2. CASE ReadFails \/ Crash
  BY <1>2, FaultInv
<1>3. CASE Block
  BY <1>3, BlockInv
<1>4. CASE NodeMoves \/ Deposit
  BY <1>4, NodeInv
<1>5. CASE Mine
  BY <1>5, MineInv
<1>6. CASE UNCHANGED vars
  BY <1>6, StutterInv
<1>7. QED
  BY <1>1, <1>2, <1>3, <1>4, <1>5, <1>6 DEF Next

-----------------------------------------------------------------------------
(* The theorems. *)

LEMMA InvHolds == Spec => []Inv
<1>1. Init => Inv
  BY InitInv
<1>2. Inv /\ [Next]_vars => Inv'
  BY StepInv
<1>3. QED
  BY <1>1, <1>2, PTL DEF Spec

\* The variables of buildSignedTransaction and of the chain keep their types, and
\* what a payout is signed with fits 64 bits.
THEOREM TypeCorrect == Spec => []TypeOK
<1>1. Inv => TypeOK
  BY DEF Inv, FeesInv
<1>2. QED
  BY <1>1, InvHolds, PTL

\* Each answer of the node that buildSignedTransaction holds is still good for the
\* check that it was read for.
THEOREM FeesInvariant == Spec => []FeesInv
<1>1. Inv => FeesInv
  BY DEF Inv
<1>2. QED
  BY <1>1, InvHolds, PTL

\* addGasLimitBuffer never signs less gas than the node estimated, nor more than the
\* buffer allows, whatever the width of the word.
THEOREM GasCovers == Spec => []GasCoversEstimate
<1>1. Inv => GasCoversEstimate
  BY DEF Inv, FeesInv, SignedInv, Covers, GasCoversEstimate
<1>2. QED
  BY <1>1, InvHolds, PTL

\* The fee cap of suggestDynamicFeeCaps lasts for five blocks of the fastest growth,
\* for every base fee at which an eighth, rounded, grows no faster.
THEOREM CapSurvives == Spec => []CapSurvivesFiveBlocks
<1>1. Inv => CapSurvivesFiveBlocks
  <2> SUFFICES ASSUME Inv, pc = "signed", age <= 5
               PROVE  signed.cap >= baseFee + signed.tip
    BY DEF CapSurvivesFiveBlocks
  <2>1. /\ signed.base >= MinBaseFee /\ Grown(baseFee, signed.base, age)
        /\ signed.cap = 2 * signed.base + signed.tip
    BY DEF Inv, FeesInv, SignedInv, BaseFits, CapFits
  <2>2. signed \in Draft /\ baseFee \in Nat /\ age \in 0 .. 5
    BY FeesAssumption DEF Inv, FeesInv, TypeOK, Draft
  <2>3. signed.base \in Nat /\ signed.tip \in Nat
    BY <2>2, DraftType
  <2>4. baseFee <= 2 * signed.base
    BY <2>1, <2>2, <2>3, FiveBlocksDouble
  <2>5. QED
    BY <2>1, <2>2, <2>3, <2>4
<1>2. QED
  BY <1>1, InvHolds, PTL

\* What validateHotWalletPayoutBalance and validateHotWalletGasBalance saw, each at
\* its own time, still pays for the payout when a block takes it.
THEOREM Affordable == Spec => []SignedIsAffordable
<1>1. Inv => SignedIsAffordable
  BY DEF Inv
<1>2. QED
  BY <1>1, InvHolds, PTL

\* alertHotWalletBalanceError: no row waits for money under a text that no operator
\* was alerted of.
THEOREM ShortageAlerted == Spec => []ShortageIsAlerted
<1>1. Init => ShortageIsAlerted
  BY DEF Init, NoMessage, Text, IsShortage, ShortageIsAlerted
<1>2. ShortageIsAlerted /\ [Next]_vars => ShortageIsAlerted'
  <2> SUFFICES ASSUME ShortageIsAlerted, [Next]_vars PROVE ShortageIsAlerted'
    OBVIOUS
  <2>1. ASSUME NEW text, Refuse(text) PROVE ShortageIsAlerted'
    BY <2>1 DEF Refuse, Alerts, ShortageIsAlerted, IsShortage
  <2>2. ASSUME UNCHANGED <<message, alerted>> PROVE ShortageIsAlerted'
    BY <2>2 DEF ShortageIsAlerted, IsShortage
  <2>3. CASE Build
    <3>1. CASE Claim \/ ReadHeader
      BY <2>2, <3>1 DEF Claim, ReadHeader, Goto, rowVars
    <3>2. CASE CheckPayout
      BY <2>1, <2>2, <3>2 DEF CheckPayout, Goto, rowVars
    <3>3. CASE EstimateGas
      BY <2>1, <2>2, <3>3 DEF EstimateGas, Goto, rowVars
    <3>4. CASE SuggestTip
      BY <2>1, <2>2, <3>4 DEF SuggestTip, Goto, rowVars
    <3>5. CASE CheckGas
      BY <2>1, <2>2, <3>5 DEF CheckGas
    <3>6. QED
      BY <2>3, <3>1, <3>2, <3>3, <3>4, <3>5 DEF Build
  <2>4. CASE ReadFails
    BY <2>1, <2>4 DEF ReadFails
  <2>5. CASE Crash \/ Block \/ NodeMoves \/ Deposit \/ UNCHANGED vars
    BY <2>2, <2>5 DEF Crash, Block, NodeMoves, Deposit, vars, rowVars
  <2>6. CASE Mine
    BY <2>6 DEF Mine, NoMessage, Text, IsShortage, ShortageIsAlerted
  <2>7. QED
    BY <2>3, <2>4, <2>5, <2>6 DEF Next
<1>3. QED
  BY <1>1, <1>2, PTL DEF Spec
=====================================================================================
