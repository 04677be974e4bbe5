------------------------------ MODULE FeeSupply ------------------------------
(***************************************************************************)
(* Transaction fees (x/fee) and the token converter (x/tokenconverter):    *)
(* the ante handler moves a fee to the fee collector and burns a part of   *)
(* it, and the converter turns bond tokens into fee tokens one to one as   *)
(* long as the supply of fee tokens stays below its maximum.               *)
(*                                                                         *)
(* Both keep their state in the bank (external): balances and supplies.    *)
(* Users are one holder, "accounts"; the module accounts x/fee and         *)
(* x/tokenconverter only pass coins on within an action and stay empty.    *)
(*                                                                         *)
(* The ante handler is modelled as x/fee and app/ante have it.  app.go     *)
(* builds it for the proposal handlers and the mempool lanes only, where   *)
(* it runs on contexts that are thrown away.                               *)
(***************************************************************************)
EXTENDS Integers

CONSTANTS FeeDenom, BondDenom,   \* params of x/fee and x/tokenconverter
          OtherDenom,            \* any other coin
          BypassDenoms,          \* denominations that skip filter and burn
          BurnNum, BurnDen,      \* BurnRatio = BurnNum / BurnDen
          FeeAmounts,            \* fees transactions offer
          ConvertAmounts,        \* amounts of MsgConvert
          GenesisMaxSupply,      \* MaxSupplyFee at genesis
          MaxSupplies,           \* values governance gives MaxSupplyFee
          InitialBalance         \* coins of each denomination at genesis

Denoms == {FeeDenom, BondDenom, OtherDenom}

ASSUME FeeSupplyAssumption ==
  /\ FeeDenom # BondDenom /\ FeeDenom # OtherDenom /\ BondDenom # OtherDenom
  /\ BypassDenoms \subseteq Denoms
  /\ BurnNum \in Nat /\ BurnDen \in Nat \ {0} /\ BurnNum < BurnDen
  /\ FeeAmounts \subseteq Nat \ {0}
  /\ ConvertAmounts \subseteq Nat \ {0}
  /\ GenesisMaxSupply \in Nat /\ MaxSupplies \subseteq Nat
  /\ InitialBalance \in Nat

VARIABLES bal,           \* coins of each holder
          supply,        \* total coins of each denomination
          maxSupplyFee   \* parameter of x/tokenconverter

bankVars == <<bal, supply, maxSupplyFee>>

(* Who holds coins: the users, the fee collector, the fee accounts of the
   liquidity pools and x/distribution. *)
Holders == {"accounts", "feeCollector", "poolFees", "distribution"}

InitBank ==
  /\ bal = [h \in Holders |-> [d \in Denoms |->
              IF h = "accounts" THEN InitialBalance ELSE 0]]
  /\ supply = [d \in Denoms |-> InitialBalance]
  /\ maxSupplyFee = GenesisMaxSupply

\* Mutant: no check of the balance.
CanSendUnchecked(h, d, n) == n >= 0

(* bankKeeper.SendCoins: fails without enough coins. *)
CanSend(h, d, n) == bal[h][d] >= n
Sent(b, from, to, d, n) ==
  [b EXCEPT ![from][d] = @ - n, ![to][d] = @ + n]

(* checkTxFeeWithValidatorMinGasPrices: exactly one coin, of the fee
   denomination or of one that bypasses the filter.  (The minimum gas prices
   of a validator concern its own mempool only.) *)
FeeAccepted(d) == d = FeeDenom \/ d \in BypassDenoms

(* Keeper.Burn: what is burnt of a fee. *)
BurnAmount(d, n) == IF d = FeeDenom THEN (n * BurnNum) \div BurnDen ELSE 0

\* Mutant: the burnt part leaves the fee collector but not the supply.
DeductFeesKeepingSupply(d, n) ==
  /\ FeeAccepted(d)
  /\ CanSend("accounts", d, n)
  /\ bal' = [Sent(bal, "accounts", "feeCollector", d, n)
               EXCEPT !["feeCollector"][d] = @ - BurnAmount(d, n)]
  /\ UNCHANGED <<supply, maxSupplyFee>>

(* DeductFees, from the payer or a granter, and the burn that follows. *)
DeductFees(d, n) ==
  /\ FeeAccepted(d)
  /\ CanSend("accounts", d, n)
  /\ bal' = [Sent(bal, "accounts", "feeCollector", d, n)
               EXCEPT !["feeCollector"][d] = @ - BurnAmount(d, n)]
  /\ supply' = [supply EXCEPT ![d] = @ - BurnAmount(d, n)]
  /\ UNCHANGED maxSupplyFee

(* CalculateConversionAmount: the room below the maximum supply, which is
   negative after governance lowered the maximum. *)
Space == maxSupplyFee - supply[FeeDenom]
ConversionRefused(minAmount) == Space = 0 \/ Space < minAmount

\* Mutant: the room below the maximum is checked but does not limit.
ConversionAmountUnlimited(maxAmount) == maxAmount

ConversionAmount(maxAmount) == IF Space < maxAmount THEN Space ELSE maxAmount

(* Convert: BurnAndMint of the calculated amount. *)
Convert(minAmount, maxAmount) ==
  /\ ~ConversionRefused(minAmount)
  /\ CanSend("accounts", BondDenom, ConversionAmount(maxAmount))
  /\ bal' = [bal EXCEPT !["accounts"][BondDenom] = @ - ConversionAmount(maxAmount),
                        !["accounts"][FeeDenom]  = @ + ConversionAmount(maxAmount)]
  /\ supply' = [supply EXCEPT ![BondDenom] = @ - ConversionAmount(maxAmount),
                              ![FeeDenom]  = @ + ConversionAmount(maxAmount)]
  /\ UNCHANGED maxSupplyFee

(* MsgUpdateParams of x/tokenconverter, by the governance module. *)
UpdateMaxSupply(m) ==
  /\ m # maxSupplyFee
  /\ maxSupplyFee' = m
  /\ UNCHANGED <<bal, supply>>

(* The transactions of these two modules. *)
NextBank ==
  \/ \E d \in Denoms, n \in FeeAmounts : DeductFees(d, n)
  \/ \E lo \in ConvertAmounts \cup {0}, hi \in ConvertAmounts : Convert(lo, hi)
  \/ \E m \in MaxSupplies : UpdateMaxSupply(m)

SpecBank == InitBank /\ [][NextBank]_bankVars

------------------------------------------------------------------------------
BankTypeOK ==
  /\ bal \in [Holders -> [Denoms -> Nat]]
  /\ supply \in [Denoms -> Nat]
  /\ maxSupplyFee \in Nat

Held(d) == bal["accounts"][d] + bal["feeCollector"][d]
           + bal["poolFees"][d] + bal["distribution"][d]

(* The ledger balances: whatever mixture of fees, burns, conversions, block
   rewards and incentives ran, the supply the converter reads is the sum of
   what everybody holds.  Burning from the fee collector (burn.go) and minting
   after burning (convert.go) each touch a balance and a supply. *)
SupplyHeld == \A d \in Denoms : supply[d] = Held(d)

(* The maximum supply binds every step that creates fee tokens, also after
   governance lowered it below the present supply (tokenconverter README:
   "CurrentSupplyRISE + OutputRISE <= MaxSupplyRISE"). *)
CapRespected ==
  [][supply'[FeeDenom] > supply[FeeDenom] =>
       supply'[FeeDenom] <= maxSupplyFee]_bankVars
==============================================================================
