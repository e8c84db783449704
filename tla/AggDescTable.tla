--------------------------- MODULE AggDescTable ----------------------------
(***************************************************************************)
(* The aggregation descriptor table of libdtrace (src/libdtrace/dt_map.c, *)
(* dt_aggid_add, dt_aggid_lookup, dt_aggid_destroy): the compiler adds the *)
(* descriptor of each aggregation variable by its id, the consumer looks   *)
(* descriptors up by id, and closing the handle destroys the table.        *)
(*                                                                         *)
(* A descriptor is abstracted to its presence in its slot: its fields are  *)
(* computed from the identifier alone.  Any allocation may fail with       *)
(* EDT_NOMEM, including one in the middle of the loop that grows the       *)
(* table.  dt_adesc is NULL exactly when dt_maxagg is 0 (the assertion of  *)
(* dt_aggid_destroy), so the model keeps dt_maxagg only.                   *)
(***************************************************************************)
EXTENDS Naturals, Sequences, FiniteSets

CONSTANTS
  AggIds   \* ids the compiler gives aggregation variables

ASSUME AggIds \subseteq Nat /\ AggIds # {}

Slots == 0 .. 2 * (CHOOSE m \in AggIds : \A i \in AggIds : i <= m) + 1

VARIABLES
  maxagg,   \* dtp->dt_maxagg, the size of the table
  adesc,    \* dtp->dt_adesc[id] # NULL
  apc,      \* "open", or "closed" once the table is destroyed
  aggAdded  \* history: the ids for which dt_aggid_add returned 0

vars == <<maxagg, adesc, apc, aggAdded>>

TypeOK ==
  /\ maxagg \in {0} \cup {2^k : k \in 0 .. Cardinality(Slots)}
  /\ adesc \in [Slots -> BOOLEAN]
  /\ apc \in {"open", "closed"}
  /\ aggAdded \subseteq AggIds

Init ==
  /\ maxagg = 0 /\ adesc = [i \in Slots |-> FALSE]
  /\ apc = "open" /\ aggAdded = {}

\* Mutant: the table is grown once, by "if" instead of "while".
GrowOnce(max, id) ==
  IF id < max THEN << >> ELSE << IF max > 0 THEN 2 * max ELSE 1 >>

(* The sizes the grow loop of dt_aggid_add allocates, in turn, to cover   *)
(* id: doubling, from one slot for an empty table.                        *)
RECURSIVE Growths(_, _)
Growths(max, id) ==
  IF id < max THEN << >>
  ELSE LET nmax == IF max > 0 THEN 2 * max ELSE 1
       IN << nmax >> \o Growths(nmax, id)

\* Mutant: the grown table is not filled from the old one.
AggTableFresh(max) == [i \in Slots |-> FALSE]

(* A table of a new size holds the old slots, and NULL past them. *)
AggTableCopy(max) == [i \in Slots |-> i < max /\ adesc[i]]

(***************************************************************************)
(* dt_aggid_add(): grow the table until it covers id, then, unless the     *)
(* slot is already set, allocate the descriptor and its records and set   *)
(* the slot.  The k-th allocation of the loop may fail, leaving the table *)
(* grown k - 1 times; the descriptor or its record vector may fail, and   *)
(* the descriptor is then freed.                                          *)
(***************************************************************************)
AggidAdd(id) ==
  LET g == Growths(maxagg, id)
      grown(k) == IF k = 0 THEN maxagg ELSE g[k]
      table(k) == IF k = 0 THEN adesc ELSE AggTableCopy(maxagg)
  IN /\ apc = "open"
     /\ \/ \E k \in 0 .. Len(g) - 1 :
             /\ maxagg' = grown(k) /\ adesc' = table(k)
             /\ UNCHANGED aggAdded
        \/ /\ maxagg' = grown(Len(g))
           /\ LET t == table(Len(g)) IN
              IF t[id]
                THEN adesc' = t /\ aggAdded' = aggAdded \cup {id}
                ELSE \/ adesc' = t /\ UNCHANGED aggAdded
                     \/ /\ adesc' = [t EXCEPT ![id] = TRUE]
                        /\ aggAdded' = aggAdded \cup {id}
     /\ UNCHANGED apc

(* dt_aggid_lookup(id): is a descriptor found (0) rather than -1? *)
AggidLookup(id) == id < maxagg /\ adesc[id]

(* dt_aggid_destroy() when the handle is closed: free every descriptor and *)
(* the table, and clear its size.                                          *)
AggidDestroy ==
  /\ apc = "open"
  /\ apc' = "closed"
  /\ maxagg' = 0 /\ adesc' = [i \in Slots |-> FALSE] /\ aggAdded' = {}

Closed == apc = "closed" /\ UNCHANGED vars

Next == (\E id \in AggIds : AggidAdd(id)) \/ AggidDestroy \/ Closed

Spec == Init /\ [][Next]_vars

(* dt_aggid_add never sets a slot past the end of the table, however far  *)
(* past it the id lies and however many times growing fails.              *)
AggInBounds == \A i \in Slots : adesc[i] => i < maxagg

(* Every id dt_aggid_add accepted is found by dt_aggid_lookup until the   *)
(* table is destroyed, through any later growth and failed growth.        *)
AggLookupFindsAdded == \A id \in aggAdded : AggidLookup(id)
====
