----------------------------- MODULE OwnerView -----------------------------
(***************************************************************************)
(* What the owner index promises to the portfolio, without the listener,   *)
(* its passes and its writers: the owner shown for a token is the owner at *)
(* some block not older than the last one scanned, and the scanned block   *)
(* never goes back.  Tokens in `loose` got a stale owner from a writer     *)
(* other than the log replay; nothing is promised of them until they are   *)
(* written again.                                                          *)
(***************************************************************************)
EXTENDS TransferLog

VARIABLES
  log,    \* the chain
  seen,   \* last block scanned
  view,   \* the owner shown for each token
  loose   \* tokens overwritten with an owner the replay had gone past

vars == <<log, seen, view, loose>>

\* The owner shown is the owner at a block from the scanned one on.
Recent(t) == \E k \in seen..Len(log) : Held(log, t, k, view[t])

Init ==
  /\ log = << >>
  /\ seen = 0
  /\ view = [t \in Tokens |-> Nobody]
  /\ loose = {}

\* The chain grows.
Extend ==
  /\ \E e \in Entries : Legal(log, e) /\ log' = Append(log, e)
  /\ UNCHANGED <<seen, view, loose>>

\* Rows are written: each ends recent or loose; no other token changes.
Write ==
  /\ UNCHANGED <<log, seen>>
  /\ view' \in [Tokens -> Wallets \cup {Nobody}]
  /\ \E S \in SUBSET Tokens :
       /\ loose \ S \subseteq loose' /\ loose' \subseteq loose \cup S
       /\ \A t \in Tokens \ S : view'[t] = view[t]
       /\ \A t \in S \ loose' : Recent(t)'

\* The scan goes on, only past what every other token already shows.
Advance ==
  /\ UNCHANGED <<log, view, loose>>
  /\ seen' \in (seen + 1)..Len(log)
  /\ \A t \in Tokens \ loose : Recent(t)'

Next == Extend \/ Write \/ Advance

Spec == Init /\ [][Next]_vars
=============================================================================
