------------------------------- MODULE PayoutFees -------------------------------
(***************************************************************************)
(* Gas, fees and the hot wallet: what buildSignedTransaction               *)
(* (blockchain/transaction_sender.go) reads from a node before it signs a   *)
(* payout, and what the refusals in between leave behind.  Each answer of    *)
(* the node is an action of its own, because blocks, deposits and other     *)
(* answers of the node come between two of them.                            *)
(*                                                                         *)
(* Payouts are made one after the other (WithdrawalProcessor), so one is    *)
(* enough at a time.  Who may claim and sign it is TransactionManager's     *)
(* matter: here a row is pending, being built, or signed.                   *)
(***************************************************************************)
EXTENDS Integers, FiniteSetsExt

CONSTANTS
    Configs,      \* the networks' configurations
    Word,         \* 2^64: gas is counted in 64 bits, and money in big integers
    MinBaseFee,   \* below it a base fee may grow faster than by an eighth
    Tips,         \* priority fees a node may suggest
    Estimates,    \* gas that a node may estimate
    Value,        \* the amount of a payout
    Fundings,     \* what the hot wallet may hold at first, and a deposit into it
    MaxDeposits,  \* bound: deposits in a behaviour
    MaxBlocks,    \* bound: blocks in a behaviour
    MaxAttempts,  \* bound: payouts signed in a behaviour
    MaxFaults     \* bound: crashes and failed calls in a behaviour

\* A limit of 0 is none (optionalUint64BigInt, estimateTransactionGasLimit).
Config == [native : BOOLEAN, bufferPercent : Nat \ {0}, gasLimit : Nat,
           maxFeePerGas : Nat, maxPriorityFeePerGas : Nat]

ASSUME FeesAssumption ==
    /\ Configs \subseteq Config
    /\ Word \in Nat \ {0} /\ \A c \in Configs : 100 + c.bufferPercent < Word
    /\ MinBaseFee \in Nat /\ MinBaseFee >= 5    \* a base fee below 8 falls no further
    /\ Tips \subseteq Nat /\ Estimates \subseteq 0 .. (Word - 1)
    /\ Value \in Nat /\ Fundings \subseteq Nat
    /\ MaxDeposits \in Nat /\ MaxBlocks \in Nat /\ MaxAttempts \in Nat \ {0}
    /\ MaxFaults \in Nat

VARIABLES
    config,    \* the configuration of the payout's network
    baseFee, tip, estimate,   \* what the node would answer
    funds, tokens,            \* the hot wallet's native and ERC20 balance
    pc,        \* the next read of buildSignedTransaction
    draft,     \* what it has read: gas limit, estimate behind it, base fee, fee cap
    signed,    \* the payout's signed transaction, until it is mined
    age,       \* blocks since the header was read, if it has been
    message,   \* status_message of the row
    alerted,   \* an operator was alerted of the shortage that message tells
    blocks, deposits, attempts, faults

chainVars == <<baseFee, tip, estimate, funds, tokens, deposits>>
rowVars == <<signed, message, alerted, attempts>>
vars == <<config, chainVars, pc, draft, rowVars, age, blocks, faults>>

Nothing == [gas |-> 0, estimate |-> 0, base |-> 0, cap |-> 0, tip |-> 0]

\* What status_message says: a shortage is worded with balance and requirement.
Message == [kind : {"none", "other", "payout", "gas"}, balance : Nat, required : Nat]
Text(kind, balance, required) ==
    [kind |-> kind, balance |-> balance, required |-> required]
NoMessage == Text("none", 0, 0)
Other == Text("other", 0, 0)
IsShortage(text) == text.kind \in {"payout", "gas"}

Fault == faults < MaxFaults /\ faults' = faults + 1
NoFault == UNCHANGED faults

-----------------------------------------------------------------------------
(* The arithmetic. *)

\* addGasLimitBuffer, in words; 0 stands for its errors.
BufferedVariant(gas, percent) ==     \* multiplies first
    ((gas * (100 + percent)) % Word) \div 100
Buffered(gas, percent) ==
    IF gas > (Word - 1) \div (100 + percent) THEN 0
    ELSE ((gas * (100 + percent)) % Word) \div 100

\* estimateTransactionGasLimit
GasRefused(limit) == limit = 0 \/ (config.gasLimit > 0 /\ limit > config.gasLimit)

\* suggestDynamicFeeCaps, validateDynamicFeeCaps
FeeCapVariant(base, priority) == base + priority    \* the base fee of now
FeeCap(base, priority) == 2 * base + priority

FeesRefused(base, priority) ==
    \/ config.maxFeePerGas > 0 /\ FeeCap(base, priority) > config.maxFeePerGas
    \/ config.maxPriorityFeePerGas > 0 /\ priority > config.maxPriorityFeePerGas

\* validateHotWalletGasBalance: what the native balance must cover.
RequiredVariant(gas, cap) == gas * cap    \* the value was covered before
Required(gas, cap) == gas * cap + (IF config.native THEN Value ELSE 0)

-----------------------------------------------------------------------------
(* buildSignedTransaction. *)

\* An error ends the attempt: a shortage is alerted unless the row says the same
\* already (alertHotWalletBalanceError), and then ReleaseSending writes the text.
\* One step, as a crash between the two does no more than repeat the alert.
AlertsVariant(text) == IsShortage(text) /\ message = NoMessage \* the first error only
Alerts(text) == IsShortage(text) /\ message # text
AfterRefusalVariant == "refused"     \* the row is not released
AfterRefusal == "pending"
Refuse(text) ==
    /\ alerted' = (IsShortage(text) /\ (Alerts(text) \/ (alerted /\ message = text)))
    /\ draft' = Nothing
    /\ age' = 0
    /\ message' = text
    /\ pc' = AfterRefusal
    /\ UNCHANGED <<signed, attempts>>

Goto(label) == pc' = label /\ UNCHANGED <<age, rowVars>>
Unmoved == UNCHANGED <<config, chainVars, blocks>>

\* a call to the node fails, or 30 seconds are over
ReadFails ==
    /\ pc \notin {"pending", "signed", "over"}
    /\ Fault /\ Refuse(Other)
    /\ Unmoved

Claim ==
    /\ pc = "pending"
    /\ Goto("payout")
    /\ UNCHANGED <<draft, faults>> /\ Unmoved

\* validateHotWalletPayoutBalance
CheckPayout ==
    /\ pc = "payout"
    /\ LET balance == IF config.native THEN funds ELSE tokens
       IN IF balance < Value
          THEN Refuse(Text("payout", balance, Value))
          ELSE Goto("estimate") /\ UNCHANGED draft
    /\ NoFault /\ Unmoved

EstimateGas ==
    /\ pc = "estimate"
    /\ LET limit == Buffered(estimate, config.bufferPercent)
       IN IF GasRefused(limit) THEN Refuse(Other)
          ELSE /\ draft' = [draft EXCEPT !.gas = limit, !.estimate = estimate]
               /\ Goto("header")
    /\ NoFault /\ Unmoved

ReadHeader ==
    /\ pc = "header"
    /\ draft' = [draft EXCEPT !.base = baseFee]
    /\ age' = 0
    /\ pc' = "tip"
    /\ UNCHANGED <<rowVars, faults>> /\ Unmoved

SuggestTip ==
    /\ pc = "tip"
    /\ IF FeesRefused(draft.base, tip) THEN Refuse(Other)
       ELSE /\ draft' = [draft EXCEPT !.tip = tip, !.cap = FeeCap(draft.base, tip)]
            /\ Goto("gas")
    /\ NoFault /\ Unmoved

\* validateHotWalletGasBalance, and after it nothing stands before the signature
CheckGas ==
    /\ pc = "gas"
    /\ LET required == Required(draft.gas, draft.cap)
       IN IF funds < required
          THEN Refuse(Text("gas", funds, required))
          ELSE /\ signed' = draft
               /\ draft' = Nothing
               /\ attempts' = attempts + 1
               /\ pc' = "signed"
               /\ UNCHANGED <<message, alerted, age>>
    /\ NoFault /\ Unmoved

-----------------------------------------------------------------------------
(* The chain. *)

\* Nothing is looked at after the last payout.
Running == pc # "over"

\* EIP-1559: a block raises the base fee by an eighth at most; here, by as much.  The
\* blocks that bring it down again count as one.
Block ==
    /\ Running /\ blocks < MaxBlocks
    /\ blocks' = blocks + 1
    /\ age' = IF pc \in {"tip", "gas", "signed"} THEN age + 1 ELSE 0
    /\ baseFee' \in {baseFee + Max({1, baseFee \div 8}), MinBaseFee}
    /\ UNCHANGED <<config, tip, estimate, funds, tokens, deposits, pc, draft, rowVars,
                   faults>>

\* The node's other answers move on their own.
NodeMoves ==
    /\ Running
    /\ tip' \in Tips /\ estimate' \in Estimates
    /\ <<tip, estimate>>' # <<tip, estimate>>
    /\ UNCHANGED <<config, baseFee, funds, tokens, deposits, pc, draft,
                   rowVars, age, blocks, faults>>

Deposit ==
    /\ Running /\ deposits < MaxDeposits
    /\ deposits' = deposits + 1
    /\ \E amount \in Fundings \ {0} :
          \/ funds' = funds + amount /\ UNCHANGED tokens
          \/ ~config.native /\ tokens' = tokens + amount /\ UNCHANGED funds
    /\ UNCHANGED <<config, baseFee, tip, estimate, pc, draft, rowVars, age,
                   blocks, faults>>

\* A block includes the payout, which succeeds or fails; a failed one is tried
\* again in a new row, and so is the next one after a success.
Mine ==
    /\ pc = "signed"
    /\ signed.cap >= baseFee
    /\ LET price == Min({signed.cap, baseFee + signed.tip})
           cost == signed.gas * price      \* at most
       IN \E ok \in BOOLEAN :
             /\ funds' = funds - cost - (IF ok /\ config.native THEN Value ELSE 0)
             /\ tokens' = tokens - (IF ok /\ ~config.native THEN Value ELSE 0)
    /\ pc' = IF attempts < MaxAttempts THEN "pending" ELSE "over"
    /\ message' = NoMessage /\ alerted' = FALSE
    /\ signed' = Nothing
    /\ age' = 0
    /\ UNCHANGED <<config, baseFee, tip, estimate, deposits, draft, attempts, blocks,
                   faults>>

\* The process dies before the payout is signed: at the next start the row is
\* pending again with the message it had.
Crash ==
    /\ pc \notin {"pending", "signed", "over"}
    /\ Fault
    /\ draft' = Nothing
    /\ age' = 0
    /\ pc' = "pending"
    /\ UNCHANGED rowVars /\ Unmoved

-----------------------------------------------------------------------------
Init ==
    /\ config \in Configs
    /\ baseFee = MinBaseFee /\ tip \in Tips /\ estimate \in Estimates
    /\ funds \in Fundings /\ tokens \in Fundings
    /\ config.native => tokens = 0
    /\ pc = "pending" /\ draft = Nothing /\ signed = Nothing
    /\ age = 0 /\ message = NoMessage /\ alerted = FALSE
    /\ blocks = 0 /\ deposits = 0 /\ attempts = 0 /\ faults = 0

Build ==
    Claim \/ CheckPayout \/ EstimateGas \/ ReadHeader \/ SuggestTip \/ CheckGas

Next == Build \/ ReadFails \/ Crash \/ Block \/ NodeMoves \/ Deposit \/ Mine

Spec == Init /\ [][Next]_vars

\* The sender polls for pending payouts and goes on with the one it holds.
FairSpec == Spec /\ WF_vars(Build)

-----------------------------------------------------------------------------
(* What must hold. *)

TypeOK ==
    /\ config \in Configs
    /\ baseFee \in Nat /\ tip \in Tips /\ estimate \in Estimates
    /\ funds \in Nat /\ tokens \in Nat
    /\ pc \in {"pending", "payout", "estimate", "header", "tip", "gas", "signed", "over"}
    /\ {draft, signed} \subseteq
          [gas : 0 .. (Word - 1), estimate : Nat, base : Nat, cap : Nat, tip : Nat]
    /\ message \in Message
    /\ alerted \in BOOLEAN
    /\ age \in 0 .. MaxBlocks /\ blocks \in 0 .. MaxBlocks
    /\ attempts \in 0 .. MaxAttempts /\ deposits \in 0 .. MaxDeposits
    /\ faults \in 0 .. MaxFaults

\* A payout is signed with the estimate and its buffer, never with less gas than
\* the node asked for, at the border of 64 bits too (addGasLimitBuffer).
GasCoversEstimate ==
    signed # Nothing =>
        /\ signed.gas >= signed.estimate
        /\ 100 * signed.gas <= signed.estimate * (100 + config.bufferPercent)

\* A signed payout stays includable, at full tip, in each of the five blocks
\* after the header its fee cap was computed from, however fast the base fee grows
\* and however long the other reads took (suggestDynamicFeeCaps).
CapSurvivesFiveBlocks ==
    pc = "signed" /\ age <= 5 => signed.cap >= baseFee + signed.tip

\* Until it is mined the hot wallet can pay for a signed payout whatever price the
\* block takes from it, although every balance was read before the signature and
\* at another time than the fees.
SignedIsAffordable ==
    pc = "signed" =>
        /\ funds >= signed.gas * signed.cap + (IF config.native THEN Value ELSE 0)
        /\ config.native \/ tokens >= Value

\* A payout that waits for money says so, and an operator has been alerted of this
\* very shortage, through crashes and other errors in between.
ShortageIsAlerted == IsShortage(message) => alerted

\* Why it holds: each answer of the node is kept with what it was good for, until the
\* next claim.
Covers(d) ==
    /\ d.gas >= d.estimate
    /\ 100 * d.gas <= d.estimate * (100 + config.bufferPercent)
CapFits(d) == d.cap = 2 * d.base + d.tip

\* What a base fee may have become, k blocks after it was b: an eighth more with every
\* block, in percent and rounded up, or one more where an eighth is less than one.
Percent == <<100, 113, 128, 144, 162, 183>>
Grown(fee, b, k) ==
    IF b >= 8 THEN 100 * fee <= Percent[k + 1] * b ELSE fee <= b + k
BaseFits(d) ==
    /\ d.base >= MinBaseFee
    /\ age <= 5 => Grown(baseFee, d.base, age)

DraftInv ==
    /\ pc \notin {"header", "tip", "gas"} => draft = Nothing
    /\ pc \in {"header", "tip", "gas"} => Covers(draft)
    /\ pc \in {"tip", "gas"} => BaseFits(draft)
    /\ pc = "gas" => CapFits(draft)
    /\ pc \in {"estimate", "header", "tip", "gas"} => config.native \/ tokens >= Value
    /\ baseFee >= MinBaseFee
SignedInv ==
    /\ pc # "signed" => signed = Nothing
    /\ pc = "signed" => Covers(signed) /\ BaseFits(signed) /\ CapFits(signed)
BoundsInv ==
    /\ age <= blocks
    /\ pc \notin {"signed", "over"} => attempts < MaxAttempts

\* The type invariant and these facts, inductive with the invariants above.
FeesInv == TypeOK /\ DraftInv /\ SignedInv /\ BoundsInv

\* The node's answers are within the limits and the money is there.  Answers that
\* would do together at any time may not do when they are given at two times.
Sendable ==
    LET limit == Buffered(estimate, config.bufferPercent)
    IN /\ ~GasRefused(limit)
       /\ ~FeesRefused(baseFee, tip)
       /\ funds >= Required(limit, FeeCap(baseFee, tip))
       /\ config.native \/ tokens >= Value

\* A refused payout stays eligible: once it could be sent for good, it is signed,
\* whatever refusals and crashes came before.
PayoutIsSigned ==
    <>[]Sendable /\ <>[][UNCHANGED <<tip, estimate>>]_vars => []<>(pc \in {"signed", "over"})
=================================================================================
