------------------------------ MODULE MCDtMap ------------------------------
(* The two descriptor tables of one handle (src/libdtrace/dt_map.c): the  *)
(* EPID table with its data descriptors and the aggregation table.  The   *)
(* compiler fills them independently, in any interleaving; closing the    *)
(* handle destroys both in one step, after which neither changes.         *)
EXTENDS TLC

CONSTANTS DDs, NoDD, RecBase, MaxRecs, MaxAdds, ContinueAfterError, AggIds

VARIABLES refcnt, recs, veclen, cpc, pcb_ddesc, pcb_maxrecs, pcb_bufoff,
          nextepid, maxprobe, ddesc, tabled, added,
          maxagg, adesc, apc, aggAdded

(* Records of one, four and eight bytes at their natural alignment. *)
MCRecShapes == {<<1, 1>>, <<4, 4>>, <<8, 8>>}

Epid == INSTANCE RecordDescTable WITH RecShapes <- MCRecShapes
Agg == INSTANCE AggDescTable

epidVars == <<refcnt, recs, veclen, cpc, pcb_ddesc, pcb_maxrecs, pcb_bufoff,
              nextepid, maxprobe, ddesc, tabled, added>>
aggVars == <<maxagg, adesc, apc, aggAdded>>

Init == Epid!Init /\ Agg!Init

Next ==
  \/ /\ Epid!DatadescCreate \/ Epid!RecAdd \/ Epid!Finalize
        \/ Epid!EpidAdd \/ Epid!BindDone
     /\ UNCHANGED aggVars
  \/ (\E id \in AggIds : Agg!AggidAdd(id)) /\ UNCHANGED epidVars
  \/ Epid!EpidDestroy /\ Agg!AggidDestroy
  \/ Epid!Closed /\ Agg!Closed

Spec == Init /\ [][Next]_<<epidVars, aggVars>>

(* Descriptor addresses are interchangeable. *)
DDSymmetry == Permutations(DDs)

(* The properties of each table, checked over the interleaved handle. *)
TypeOK == Epid!TypeOK /\ Agg!TypeOK
RefcountExact == Epid!RefcountExact
LookupFindsAdded == Epid!LookupFindsAdded
RecordsLaidOut == Epid!RecordsLaidOut
RecordsWithinVector == Epid!RecordsWithinVector
AggInBounds == Agg!AggInBounds
AggLookupFindsAdded == Agg!AggLookupFindsAdded
=============================================================================
