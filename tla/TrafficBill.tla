----------------------------- MODULE TrafficBill -----------------------------
(***************************************************************************)
(* What the accounting of traffic promises, whatever it takes to keep it:  *)
(* traffic that was counted stays open until one indivisible step settles  *)
(* it, adding it to the clients that have a row at that moment, or until   *)
(* it is given up.  Nothing is settled that is not open, so nothing is     *)
(* billed twice, and what was billed or given up stays so.                 *)
(*                                                                         *)
(* TrafficLedger implements it with counters that are emptied by reading   *)
(* them, a buffer of rows owed to the database and flushes that may fail.  *)
(***************************************************************************)
CONSTANTS
  Chunk,    \* pieces of traffic
  KeyOf,    \* the counter of each
  UserKey   \* the counters whose traffic is charged to a client

VARIABLES
  clients,  \* user keys that have a client row
  open,     \* traffic that was counted and is owed
  settled,  \* traffic that is in the database
  billed,   \* traffic that a client was charged for
  gone      \* traffic that was given up

billVars == <<clients, open, settled, billed, gone>>

Init ==
  /\ clients = UserKey
  /\ open = {} /\ settled = {} /\ billed = {} /\ gone = {}

\* A chunk is counted once.
Count(c) ==
  /\ c \notin open \cup settled \cup gone
  /\ open' = open \cup {c}
  /\ UNCHANGED <<clients, settled, billed, gone>>

\* One transaction settles part of what is owed and bills all of that part.
Settle(S) ==
  /\ open' = open \ S
  /\ settled' = settled \cup S
  /\ billed' = billed \cup {c \in S : KeyOf[c] \in clients}
  /\ UNCHANGED <<clients, gone>>

GiveUp(S) ==
  /\ open' = open \ S
  /\ gone' = gone \cup S
  /\ UNCHANGED <<clients, settled, billed>>

\* A client is deleted, renamed or added.
Edit(k) ==
  /\ clients' = IF k \in clients THEN clients \ {k} ELSE clients \cup {k}
  /\ UNCHANGED <<open, settled, billed, gone>>

Next ==
  \/ \E c \in Chunk : Count(c)
  \/ \E S \in SUBSET open : Settle(S) \/ GiveUp(S)
  \/ \E k \in UserKey : Edit(k)

Spec == Init /\ [][Next]_billVars
==============================================================================
