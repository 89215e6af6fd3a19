------------------------------ MODULE PhoneBook ------------------------------
(***************************************************************************)
(* What the directory promises of a listing, without clocks, threads or    *)
(* tables.  An agent gets into the book only with a ticket that was issued *)
(* to it and is torn up as it is used; it leaves the book by lapsing or by *)
(* a suspension; only the moderator's reinstatement brings it back without *)
(* a ticket, and only from a suspension.  The book also forgives: an agent *)
(* that redeems a ticket while suspended is listed again.                  *)
(***************************************************************************)
CONSTANTS Agents, Tickets

VARIABLES
  book,    \* agent -> "absent" | "listed" | "expired" | "suspended"
  issued,  \* the tickets ever issued
  open     \* the tickets that can still be redeemed, with their owner

vars == <<book, issued, open>>

TypeOK ==
  /\ book \in [Agents -> {"absent", "listed", "expired", "suspended"}]
  /\ issued \subseteq Tickets
  /\ open \subseteq issued \X Agents

Init ==
  /\ book = [a \in Agents |-> "absent"]
  /\ issued = {}
  /\ open = {}

\* A ticket is issued once; open tickets of others may be withdrawn for it.
Issue(k, a) ==
  /\ k \in Tickets \ issued
  /\ issued' = issued \cup {k}
  /\ \E withdrawn \in SUBSET open : open' = (open \ withdrawn) \cup {<<k, a>>}
  /\ UNCHANGED book

Redeem(k, a) ==
  /\ <<k, a>> \in open
  /\ open' = open \ {<<k, a>>}
  /\ book' = [book EXCEPT ![a] = "listed"]
  /\ UNCHANGED issued

Lapse(S) ==
  /\ \A a \in S : book[a] = "listed"
  /\ book' = [a \in Agents |-> IF a \in S THEN "expired" ELSE book[a]]
  /\ UNCHANGED <<issued, open>>

Suspend(a) ==
  /\ book[a] # "absent"
  /\ book' = [book EXCEPT ![a] = "suspended"]
  /\ UNCHANGED <<issued, open>>

Reinstate(a) ==
  /\ book[a] = "suspended"
  /\ book' = [book EXCEPT ![a] = "listed"]
  /\ UNCHANGED <<issued, open>>

Next ==
  \/ \E k \in Tickets, a \in Agents : Issue(k, a) \/ Redeem(k, a)
  \/ \E S \in SUBSET Agents : Lapse(S)
  \/ \E a \in Agents : Suspend(a) \/ Reinstate(a)

Spec == Init /\ [][Next]_vars

=============================================================================
