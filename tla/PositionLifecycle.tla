------------------------- MODULE PositionLifecycle --------------------------
(***************************************************************************)
(* What mod:WS_Manager promises of a position, whatever Kraken, the        *)
(* connection and the tasks of the event loop do: at most one position per *)
(* symbol at a time; opening it locks its module's dispatch semaphore; it  *)
(* is settled once, with one TRADE_CLOSE, which unlocks the semaphore.     *)
(* Nothing else changes what is owed, the records or the semaphores.       *)
(* WSManagerLive implements it.                                            *)
(***************************************************************************)
EXTENDS Naturals, Sequences

CONSTANTS Symbols, Sides, Reasons

VARIABLES
    owed,     \* positions whose TRADE_CLOSE is owed, named by their opening
    records,  \* records[n]: the exit_reasons recorded for the n-th opening
    locked    \* per side: is the dispatch semaphore held?

vars == <<owed, records, locked>>

Init ==
    /\ owed = {}
    /\ records = <<>>
    /\ locked = [sd \in Sides |-> FALSE]

Open(s, sd) ==
    /\ \A p \in owed : p.sym # s
    /\ owed' = owed \cup {[nth |-> Len(records) + 1, sym |-> s, side |-> sd]}
    /\ records' = Append(records, <<>>)
    /\ locked' = [locked EXCEPT ![sd] = TRUE]

\* A close fill settles one position, a snapshot several at once.
Settle(P, reason) ==
    /\ owed' = owed \ P
    /\ records' = [n \in DOMAIN records |->
           IF n \in {p.nth : p \in P} THEN Append(records[n], reason) ELSE records[n]]
    /\ locked' = [sd \in Sides |-> locked[sd] /\ ~\E p \in P : p.side = sd]

Next ==
    \/ \E s \in Symbols, sd \in Sides : Open(s, sd)
    \/ \E P \in SUBSET owed, reason \in Reasons : Settle(P, reason)

Spec == Init /\ [][Next]_vars
=============================================================================
