----------------------------- MODULE MCPermits -----------------------------
(***************************************************************************)
(* Permits for TLC: two calls that compete for one provider, whose pool    *)
(* comes second, so that the pool of either user is left alone by a purge  *)
(* that the other call makes.                                              *)
(***************************************************************************)
EXTENDS Permits, TLC

CONSTANTS c1, c2, global, provider, ann, bob

MCNeeds == c1 :> <<global, provider, ann>> @@ c2 :> <<global, provider, bob>>

MCLimit == global :> 2 @@ provider :> 1 @@ ann :> 1 @@ bob :> 1
=============================================================================
