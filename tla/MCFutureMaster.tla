---------------------------- MODULE MCFutureMaster ----------------------------
(***************************************************************************)
(* Instances of FutureMaster for TLC: two contracts of one stock index     *)
(* (CFFEX), a contract of SHFE and one of DCE.                             *)
(***************************************************************************)
EXTENDS FutureMaster, TLC

CONSTANTS NearIF, FarIF, Copper, Soy, CSI

MCCodes == {NearIF, FarIF, Copper, Soy}
MCMarketOf ==
  (NearIF :> "CFFEX" @@ FarIF :> "CFFEX" @@ Copper :> "SHFE" @@ Soy :> "DCE")
MCTypeOf == (NearIF :> CSI @@ FarIF :> CSI @@ Copper :> NoType @@ Soy :> NoType)

Held(long, short) == [long |-> long, short |-> short]
Of(yd, td) == [yd |-> yd, td |-> td]
Flat == Held(Of(0, 0), Of(0, 0))
MCHoldings ==
  (NearIF :> Held(Of(2, 0), Of(0, 0)) @@ FarIF :> Flat
     @@ Copper :> Held(Of(1, 2), Of(0, 0)) @@ Soy :> Held(Of(1, 1), Of(0, 0)))

Item(code, oc, volume) == [code |-> code, oc |-> oc, volume |-> volume]
Sell(items) == [bs |-> "sell", items |-> items]
Buy(items) == [bs |-> "buy", items |-> items]

MCRequest ==
  << \* index futures: closing yesterday's position, opening another contract
     Sell(<<Item(NearIF, "auto", 1), Item(NearIF, "auto", 1)>>),
     Sell(<<Item(NearIF, "auto", 2)>>),
     Buy(<<Item(FarIF, "auto", 1)>>),
     Buy(<<Item(FarIF, "open", 2), Item(NearIF, "auto", 1)>>),
     \* commodities: flags the client chose beside flags the master chooses
     Sell(<<Item(Copper, "auto", 1), Item(Copper, "auto", 1)>>),
     Sell(<<Item(Copper, "close", 1), Item(Copper, "closeToday", 1)>>),
     Sell(<<Item(Soy, "auto", 2)>>),
     Sell(<<Item(Soy, "close", 1), Item(Soy, "auto", 1)>>),
     Buy(<<Item(Soy, "auto", 1)>>) >>

\* A closing order the limit turns down, while another one works.
RefusedRequest ==
  << Sell(<<Item(NearIF, "auto", 2)>>), Sell(<<Item(NearIF, "close", 2)>>) >>
==============================================================================
