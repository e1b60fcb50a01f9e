------------------------------- MODULE Ledger -------------------------------
(***************************************************************************)
(* What a spot account promises, without tables, requests or prices: an    *)
(* entry is paid from cash, it ends once, and everything it returns is in  *)
(* the cash from then on.  The paper account implements it as long as its  *)
(* handlers commit only what is still true.                                *)
(***************************************************************************)
EXTENDS Integers

CONSTANTS Initial,   \* the starting cash
          Ids        \* the entries there can ever be

VARIABLES cash,      \* quote available
          held,      \* cost of each entry still open
          result     \* net result of each entry that has ended

vars == <<cash, held, result>>

With(map, x, value) ==
  [y \in DOMAIN map \cup {x} |-> IF y = x THEN value ELSE map[y]]

Used == DOMAIN held \cup DOMAIN result

Init == cash = Initial /\ held = [x \in {} |-> 0] /\ result = [x \in {} |-> 0]

\* An entry costs something and is paid in full.
Enter ==
  \E id \in Ids \ Used :
    /\ cash' < cash
    /\ cash' >= 0
    /\ held' = With(held, id, cash - cash')
    /\ UNCHANGED result

\* An entry ends once; a long position cannot lose more than it cost.
End ==
  \E id \in DOMAIN held :
    /\ cash' >= cash
    /\ held' = [x \in DOMAIN held \ {id} |-> held[x]]
    /\ result' = With(result, id, cash' - cash - held[id])

Next == Enter \/ End

Spec == Init /\ [][Next]_vars
=============================================================================
