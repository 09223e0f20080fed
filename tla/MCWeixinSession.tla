-------------------------- MODULE MCWeixinSession --------------------------
(* Instance of WeixinSession for TLC: three logins, the third with a       *)
(* different account, so that a client can relogin both ways.              *)
EXTENDS WeixinSession, TLC

CONSTANTS t1, t2, t3, a, b

MCTokens == {t1, t2, t3}
MCAccounts == {a, b}
\* Senders run the same code, and t1, t2 are logins of the same account.
MCSymmetry == Permutations(Senders) \cup Permutations({t1, t2})

MCAccountOf == t1 :> a @@ t2 :> a @@ t3 :> b
=============================================================================
