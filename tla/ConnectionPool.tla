--------------------------- MODULE ConnectionPool ---------------------------
(***************************************************************************)
(* What a pool of connections to one origin promises (the contract stated  *)
(* on Transport in src/tth2/transport.go): callers use connections one at  *)
(* a time, reuse the oldest idle one, never exceed the limit, forget none, *)
(* and keep none that existed when the idle connections were closed.       *)
(* OriginPool implements it with a channel of tokens, a mutex and an       *)
(* epoch.                                                                  *)
(***************************************************************************)
EXTENDS Integers, Sequences, FiniteSets

CONSTANTS Callers, Conns, NoConn, Limit

VARIABLES
  exists,  \* connections that are open, or failed and not yet closed
  pooled,  \* idle connections, oldest first
  held,    \* the connection each caller uses
  doomed,  \* connections that will only be closed
  retired  \* connections that may not be pooled again

poolVars == <<exists, pooled, held, doomed, retired>>

InUse == {held[c] : c \in Callers} \ {NoConn}

Init ==
  /\ exists = {} /\ pooled = <<>> /\ doomed = {} /\ retired = {}
  /\ held = [c \in Callers |-> NoConn]

\* A new connection is opened for one caller, within the limit.
Open(c, x) ==
  /\ held[c] = NoConn /\ x \notin exists
  /\ Len(pooled) + Cardinality(InUse) < Limit
  /\ exists' = exists \cup {x}
  /\ held' = [held EXCEPT ![c] = x]
  /\ UNCHANGED <<pooled, doomed, retired>>

\* The n oldest are given up, and the caller takes the oldest that is left.
Take(c, n) ==
  /\ held[c] = NoConn
  /\ doomed' = doomed \cup {pooled[i] : i \in 1..n}
  /\ held' = [held EXCEPT ![c] = IF n < Len(pooled) THEN pooled[n + 1] ELSE NoConn]
  /\ pooled' = SubSeq(pooled, n + 2, Len(pooled))
  /\ UNCHANGED <<exists, retired>>

\* A caller returns its connection, which then is the youngest.
GiveBack(c) ==
  /\ held[c] # NoConn /\ held[c] \notin retired
  /\ pooled' = Append(pooled, held[c])
  /\ held' = [held EXCEPT ![c] = NoConn]
  /\ UNCHANGED <<exists, doomed, retired>>

\* A connection is closed by the caller that uses it, or because it is doomed.
Discard(c) ==
  /\ held[c] # NoConn
  /\ exists' = exists \ {held[c]} /\ retired' = retired \ {held[c]}
  /\ held' = [held EXCEPT ![c] = NoConn]
  /\ UNCHANGED <<pooled, doomed>>
Destroy(x) ==
  /\ x \in doomed
  /\ exists' = exists \ {x} /\ retired' = retired \ {x}
  /\ doomed' = doomed \ {x}
  /\ UNCHANGED <<pooled, held>>

\* The idle connections are closed: every idle one is doomed, every one in use
\* will not come back.
Retire ==
  /\ doomed' = doomed \cup {pooled[i] : i \in DOMAIN pooled}
  /\ pooled' = <<>>
  /\ retired' = exists
  /\ UNCHANGED <<exists, held>>

Next ==
  \/ \E c \in Callers :
       \/ \E x \in Conns : Open(c, x)
       \/ \E n \in 0..Len(pooled) : Take(c, n)
       \/ GiveBack(c) \/ Discard(c)
  \/ \E x \in Conns : Destroy(x)
  \/ Retire

Spec == Init /\ [][Next]_poolVars
=============================================================================
