-------------------------- MODULE RecordDescTable --------------------------
(***************************************************************************)
(* The record descriptor table of libdtrace (src/libdtrace/dt_map.c): the  *)
(* reference-counted data descriptors that say where each record of a      *)
(* clause lies in the output buffer (dt_datadesc_*, dt_rec_add), and the   *)
(* EPID table that binds each enabled probe ID to the descriptor of its    *)
(* clause (dt_epid_add, dt_epid_lookup, dt_epid_destroy).                  *)
(*                                                                         *)
(* They are driven by the D compiler, which is not in src/: for each      *)
(* clause it creates a descriptor (held by its pcb), adds the clause's     *)
(* records, finalizes the descriptor, adds one EPID per probe the clause   *)
(* is attached to, and drops its own reference.  Any allocation may fail   *)
(* with EDT_NOMEM; the compilation then fails and its descriptor is       *)
(* released.  A consumer may go on compiling on the same handle after a    *)
(* failure when ContinueAfterError.  Closing the handle destroys the table.*)
(*                                                                         *)
(* A descriptor is identified by its address; an address whose reference  *)
(* count is 0 is free and may be handed out again by the allocator.       *)
(***************************************************************************)
EXTENDS Naturals, Sequences, FiniteSets

CONSTANTS
  DDs,               \* addresses a data descriptor may be allocated at
  NoDD,              \* the NULL descriptor pointer
  RecShapes,         \* <<size, alignment>> of the records a clause may add
  RecBase,           \* pcb_bufoff when the compiler starts a clause
  MaxRecs,           \* bound on the records of one clause
  MaxAdds,           \* bound on dt_nextepid: dt_epid_add calls per table
  ContinueAfterError \* the consumer compiles again after a failed compile

ASSUME NoDD \notin DDs
ASSUME \A sh \in RecShapes : sh[2] \in {1, 2, 4, 8}
ASSUME RecBase \in Nat /\ MaxRecs \in Nat /\ MaxAdds \in Nat \ {0}

Epids == 0 .. MaxAdds - 1
Record == [off : Nat, size : Nat, align : {1, 2, 4, 8}]

VARIABLES
  refcnt,      \* dtdd_refcnt of the descriptor at each address (0: free)
  recs,        \* dtdd_recs[0 .. dtdd_nrecs - 1] of each descriptor
  veclen,      \* record slots allocated for dtdd_recs
  cpc,         \* the compiler: "idle", "build", "bind", "failed", "closed"
  pcb_ddesc,   \* pcb->pcb_ddesc, the descriptor of the clause compiled
  pcb_maxrecs, \* pcb->pcb_maxrecs
  pcb_bufoff,  \* pcb->pcb_bufoff, the running buffer offset
  nextepid,    \* dtp->dt_nextepid
  maxprobe,    \* dtp->dt_maxprobe, the size of the EPID table
  ddesc,       \* dtp->dt_ddesc[epid], NoDD for a NULL slot
  tabled,      \* dtp->dt_ddesc != NULL
  added        \* history: the <<epid, descriptor>> pairs dt_epid_add returned

ddVars == <<refcnt, recs, veclen>>
pcbVars == <<pcb_ddesc, pcb_maxrecs, pcb_bufoff>>
tableVars == <<nextepid, maxprobe, ddesc, tabled, added>>
vars == <<refcnt, recs, veclen, cpc, pcb_ddesc, pcb_maxrecs, pcb_bufoff,
          nextepid, maxprobe, ddesc, tabled, added>>

TypeOK ==
  /\ refcnt \in [DDs -> Nat]
  /\ recs \in [DDs -> Seq(Record)]
  /\ veclen \in [DDs -> Nat]
  /\ cpc \in {"idle", "build", "bind", "failed", "closed"}
  /\ pcb_ddesc \in DDs \cup {NoDD}
  /\ pcb_maxrecs \in Nat /\ pcb_bufoff \in Nat
  /\ nextepid \in 0 .. MaxAdds
  /\ maxprobe \in {0} \cup {2^k : k \in 1 .. MaxAdds}
  /\ ddesc \in [Epids -> DDs \cup {NoDD}]
  /\ tabled \in BOOLEAN
  /\ added \subseteq Epids \X DDs

Init ==
  /\ refcnt = [d \in DDs |-> 0]
  /\ recs = [d \in DDs |-> << >>]
  /\ veclen = [d \in DDs |-> 0]
  /\ cpc = "idle"
  /\ pcb_ddesc = NoDD /\ pcb_maxrecs = 0 /\ pcb_bufoff = RecBase
  /\ nextepid = 0 /\ maxprobe = 0 /\ ddesc = [e \in Epids |-> NoDD]
  /\ tabled = FALSE /\ added = {}

(***************************************************************************)
(* dt_datadesc_release() of n[d] references to each descriptor d, one      *)
(* after another: a descriptor whose count drops to 0 has its records (and *)
(* their format plans) freed and its address returned to the allocator.    *)
(***************************************************************************)
ReleaseEach(n) ==
  /\ refcnt' = [d \in DDs |-> refcnt[d] - n[d]]
  /\ recs' = [d \in DDs |-> IF n[d] > 0 /\ refcnt[d] <= n[d]
                             THEN << >> ELSE recs[d]]
  /\ veclen' = [d \in DDs |-> IF n[d] > 0 /\ refcnt[d] <= n[d]
                               THEN 0 ELSE veclen[d]]

Release(dd) == ReleaseEach([d \in DDs |-> IF d = dd THEN 1 ELSE 0])

(* A failed compilation releases the descriptor its pcb holds. *)
AfterError == IF ContinueAfterError THEN "idle" ELSE "failed"

CompileError ==
  /\ Release(pcb_ddesc)
  /\ cpc' = AfterError
  /\ pcb_ddesc' = NoDD

\* Mutant: the new descriptor is returned without dt_datadesc_hold().
DatadescCreateNoHold ==
  /\ cpc = "idle"
  /\ \/ \E d \in DDs :
          /\ refcnt[d] = 0
          /\ recs' = [recs EXCEPT ![d] = << >>]
          /\ veclen' = [veclen EXCEPT ![d] = 0]
          /\ cpc' = "build"
          /\ pcb_ddesc' = d /\ pcb_maxrecs' = 0 /\ pcb_bufoff' = RecBase
          /\ UNCHANGED refcnt
     \/ /\ cpc' = AfterError
        /\ UNCHANGED <<ddVars, pcbVars>>
  /\ UNCHANGED tableVars

(* dt_datadesc_create(), with the pcb set up for a new clause. *)
DatadescCreate ==
  /\ cpc = "idle"
  /\ \/ \E d \in DDs :
          /\ refcnt[d] = 0
          /\ refcnt' = [refcnt EXCEPT ![d] = 1]
          /\ recs' = [recs EXCEPT ![d] = << >>]
          /\ veclen' = [veclen EXCEPT ![d] = 0]
          /\ cpc' = "build"
          /\ pcb_ddesc' = d /\ pcb_maxrecs' = 0 /\ pcb_bufoff' = RecBase
     \/ /\ cpc' = AfterError
        /\ UNCHANGED <<ddVars, pcbVars>>
  /\ UNCHANGED tableVars

(* The offset dt_rec_add() gives a record: pcb_bufoff rounded up to the   *)
(* alignment; the mask ~(alignment - 1) of a power of two clears the low   *)
(* bits.  The uint32_t offsets stay far below 2^32 here and do not wrap.   *)
\* Mutant: the offset is rounded down, not up.
AlignDown(bufoff, a) == bufoff - (bufoff % a)

AlignUp(bufoff, a) == LET x == bufoff + (a - 1) IN x - (x % a)

(* dt_rec_add(): grow the record vector (doubling, initially to one slot) *)
(* when the new count reaches its capacity, then append a record at the  *)
(* aligned offset and move pcb_bufoff past it.  The gap callback only    *)
(* emits code that zeroes the bytes skipped.                             *)
\* Mutant: an empty vector "doubles" to zero slots.
RecGrowthNoFirst(max, cnt) == 2 * max

RecGrowth(max, cnt) == IF max > 0 THEN 2 * max ELSE cnt

RecAdd ==
  /\ cpc = "build" /\ Len(recs[pcb_ddesc]) < MaxRecs
  /\ LET d == pcb_ddesc
         cnt == Len(recs[d]) + 1
         grow == cnt >= pcb_maxrecs
         nmax == RecGrowth(pcb_maxrecs, cnt)
     IN \/ /\ grow
           /\ CompileError
           /\ UNCHANGED <<pcb_maxrecs, pcb_bufoff>>
        \/ \E sh \in RecShapes :
             LET off == AlignUp(pcb_bufoff, sh[2])
             IN /\ recs' = [recs EXCEPT ![d] = Append(@,
                             [off |-> off, size |-> sh[1], align |-> sh[2]])]
                /\ pcb_bufoff' = off + sh[1]
                /\ IF grow
                     THEN /\ veclen' = [veclen EXCEPT ![d] = nmax]
                          /\ pcb_maxrecs' = nmax
                     ELSE UNCHANGED <<veclen, pcb_maxrecs>>
                /\ UNCHANGED <<refcnt, cpc, pcb_ddesc>>
  /\ UNCHANGED tableVars

(* dt_datadesc_finalize(): shrink an oversized record vector to the count. *)
Finalize ==
  /\ cpc = "build"
  /\ LET d == pcb_ddesc
         n == Len(recs[d])
     IN IF n < pcb_maxrecs
          THEN \/ CompileError /\ UNCHANGED <<pcb_maxrecs, pcb_bufoff>>
               \/ /\ veclen' = [veclen EXCEPT ![d] = n]
                  /\ pcb_maxrecs' = n
                  /\ cpc' = "bind"
                  /\ UNCHANGED <<refcnt, recs, pcb_ddesc, pcb_bufoff>>
          ELSE /\ cpc' = "bind"
               /\ UNCHANGED <<ddVars, pcbVars>>
  /\ UNCHANGED tableVars

(***************************************************************************)
(* dt_epid_add(): take the next EPID, grow the table (doubling, initially  *)
(* to two slots) when the EPID is past its end, and bind the slot to the   *)
(* descriptor with a new reference.  The EPID is taken before the         *)
(* allocations, so a failed call still consumes it.  The table grows by   *)
(* one doubling only; a slot written past its end lies outside the table. *)
(***************************************************************************)
\* Mutant: the table grows by two slots instead of doubling.
EpidGrowthLinear(max) == max + 2

EpidGrowth(max) == IF max > 0 THEN 2 * max ELSE 2

\* Mutant: the grown table is not filled from the old one.
EpidTableFresh(max) == [e \in Epids |-> NoDD]

EpidTableCopy(max) ==
  [e \in Epids |-> IF e < max THEN ddesc[e] ELSE NoDD]

EpidAdd ==
  /\ cpc = "bind" /\ nextepid < MaxAdds
  /\ LET epid == nextepid
         grow == epid >= maxprobe \/ ~tabled
         table == IF grow THEN EpidTableCopy(maxprobe) ELSE ddesc
     IN /\ nextepid' = nextepid + 1
        /\ \/ /\ grow
              /\ CompileError
              /\ UNCHANGED <<maxprobe, ddesc, tabled, added>>
           \/ /\ maxprobe' = IF grow THEN EpidGrowth(maxprobe) ELSE maxprobe
              /\ tabled' = TRUE
              /\ IF table[epid] # NoDD
                   THEN /\ ddesc' = table
                        /\ added' = added \cup {<<epid, table[epid]>>}
                        /\ UNCHANGED refcnt
                   ELSE /\ ddesc' = [table EXCEPT ![epid] = pcb_ddesc]
                        /\ added' = added \cup {<<epid, pcb_ddesc>>}
                        /\ refcnt' = [refcnt EXCEPT ![pcb_ddesc] = @ + 1]
              /\ UNCHANGED <<recs, veclen, cpc, pcb_ddesc>>
  /\ UNCHANGED <<pcb_maxrecs, pcb_bufoff>>

(* The compiler is done with the clause and drops the pcb's reference. *)
BindDone ==
  /\ cpc = "bind"
  /\ Release(pcb_ddesc)
  /\ cpc' = "idle" /\ pcb_ddesc' = NoDD
  /\ UNCHANGED <<pcb_maxrecs, pcb_bufoff>> /\ UNCHANGED tableVars

(* dt_epid_lookup(epid): the bound descriptor, or NoDD for -1. *)
EpidLookup(epid) == IF epid >= maxprobe THEN NoDD ELSE ddesc[epid]

(* dt_epid_destroy() when the handle is closed: release the descriptor of *)
(* every slot of the table, free it and clear the counters.               *)
EpidDestroy ==
  /\ cpc \in {"idle", "failed"}
  /\ cpc' = "closed"
  /\ IF ~tabled
       THEN UNCHANGED <<ddVars, tableVars>>
       ELSE /\ ReleaseEach([d \in DDs |->
                 Cardinality({e \in Epids : e < maxprobe /\ ddesc[e] = d})])
            /\ ddesc' = [e \in Epids |-> NoDD]
            /\ tabled' = FALSE /\ nextepid' = 0 /\ maxprobe' = 0
            /\ added' = {}
  /\ UNCHANGED pcbVars

(* A closed handle does nothing more. *)
Closed == cpc = "closed" /\ UNCHANGED vars

Next ==
  \/ DatadescCreate \/ RecAdd \/ Finalize \/ EpidAdd \/ BindDone
  \/ EpidDestroy \/ Closed

Spec == Init /\ [][Next]_vars

(***************************************************************************)
(* Properties                                                              *)
(***************************************************************************)

(* The references a descriptor has: its table slots and the pcb. *)
Holders(d) ==
  Cardinality({e \in Epids : ddesc[e] = d}) + (IF pcb_ddesc = d THEN 1 ELSE 0)

(* Reference counting by dt_datadesc_hold/release, dt_epid_add and        *)
(* dt_epid_destroy is exact: a descriptor's count is the number of its     *)
(* holders, so it is freed when, and only when, its last holder lets go.   *)
RefcountExact == \A d \in DDs : refcnt[d] = Holders(d)

(* Every EPID dt_epid_add returned is found by dt_epid_lookup, bound to   *)
(* the same descriptor, for as long as the table exists: growing the      *)
(* table keeps the earlier slots.                                         *)
LookupFindsAdded == \A p \in added : EpidLookup(p[1]) = p[2]

(* The records dt_rec_add lays out for a clause are each aligned, start   *)
(* at or after the clause's base offset, never overlap the one before,    *)
(* and the clause's running offset is the end of its last record.         *)
RecordsLaidOut ==
  /\ \A d \in DDs :
       LET r == recs[d] IN
       \A i \in 1 .. Len(r) :
         /\ r[i].off % r[i].align = 0
         /\ r[i].off >= RecBase
         /\ i > 1 => r[i - 1].off + r[i - 1].size <= r[i].off
  /\ (cpc = "build" /\ recs[pcb_ddesc] # << >>) =>
       LET last == recs[pcb_ddesc][Len(recs[pcb_ddesc])]
       IN pcb_bufoff = last.off + last.size

(* Every record lies within the allocated record vector, whose size the   *)
(* pcb tracks while the clause is compiled, and a descriptor bound to an  *)
(* EPID has been finalized: its vector holds exactly its records.         *)
RecordsWithinVector ==
  /\ \A d \in DDs : Len(recs[d]) <= veclen[d]
  /\ cpc \in {"build", "bind"} => veclen[pcb_ddesc] = pcb_maxrecs
  /\ \A e \in Epids : ddesc[e] # NoDD => veclen[ddesc[e]] = Len(recs[ddesc[e]])

(* dt_epid_add never writes a slot past the end of the EPID table. *)
TableInBounds == \A e \in Epids : ddesc[e] # NoDD => e < maxprobe
====
