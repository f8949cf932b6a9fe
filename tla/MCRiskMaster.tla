------------------------------ MODULE MCRiskMaster ------------------------------
(***************************************************************************)
(* Instances of RiskMaster for TLC.  OrderTimeout is 0: a tick is as long  *)
(* as kOrderTimeoutMS, whatever was asked in an earlier one has timed out. *)
(***************************************************************************)
EXTENDS RiskMaster, TLC

CONSTANTS Mine, Other, ETF, Share

Item(code, price, volume) == [code |-> code, price |-> price, volume |-> volume]
Message(id, fund, side, items) == [id |-> id, fund |-> fund, side |-> side, items |-> items]

\* A buy order in two lots and one in a single lot, sell orders at their price:
\* one, and a batch whose second item is exempt.
BigBuy == Message(1, Mine, "buy", <<Item(ETF, 2, 2)>>)
SmallBuy == Message(2, Mine, "buy", <<Item(ETF, 2, 1)>>)
SmallSell == Message(3, Mine, "sell", <<Item(ETF, 2, 1)>>)
SellBatch == Message(4, Mine, "sell", <<Item(ETF, 2, 1), Item(Share, 1, 1)>>)
\* Orders of another account: one that could trade with ours, one that could not.
ForeignSell == Message(5, Other, "sell", <<Item(ETF, 2, 1)>>)
ForeignHigh == Message(6, Other, "sell", <<Item(ETF, 9, 1)>>)

BatchMessages == {SmallBuy, SellBatch}
LateMessages == {BigBuy, SmallSell, ForeignHigh}
PairMessages == {BigBuy, SmallSell}
ForeignMessages == {BigBuy, SmallBuy, ForeignSell}

SharesExempt == {<<Mine, Share>>}
FirstTick == {1}
Never == {}

SmallEarly == {<<SmallBuy, "trade">>}
BigEarly == {BigBuy} \X {"trade", "failed"}
WithdrawnEarly == {<<BigBuy, "withdrawn">>}
None == {}
==============================================================================
