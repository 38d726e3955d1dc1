------------------------------ MODULE MCArming ------------------------------
(***************************************************************************)
(* A small instance of Arming: a class that rests longer than the driver,  *)
(* and one of another driver.                                              *)
(***************************************************************************)
EXTENDS Arming, TLC

MCMeans == "slow" :> 2 @@ "other" :> Refused

=============================================================================
