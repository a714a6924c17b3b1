-------------------------- MODULE ExtentAllocProofs --------------------------
(***************************************************************************)
(* Proofs about the extent allocator.                                      *)
(***************************************************************************)
EXTENDS ExtentAlloc, CommonProofs

\* The invariant the proofs go by: the properties TLC checks, together.
IInv ==
    /\ TypeOK
    /\ FreeListCanonical
    /\ SpacePartitioned
    /\ OwnersDisjoint

\* IInv in the byte-by-byte form the lemmas use.
ByteInv ==
    /\ TypeOK
    /\ Accounted(fl, Owned, file_end)
    /\ held \cap freeing = {}
    /\ held \cap lost = {}
    /\ freeing \cap lost = {}

\* The two forms agree.
LEMMA ByteInvIsIInv == ByteInv <=> IInv
<1> SUFFICES ASSUME TypeOK
             PROVE  ByteInv <=> IInv
  BY DEF ByteInv, IInv
<1>1. Owned \in SUBSET Extent /\ fl \in Seq(Extent) /\ file_end \in Nat
  BY DEF TypeOK, Owned
<1>2. LS_SUPER_SIZE <= file_end /\ Partitioned(fl, Owned, file_end)
         <=> SpacePartitioned
  BY <1>1, PartitionByBytes DEF SpacePartitioned
<1>3. Apart(Owned) <=> \A d, e \in Owned : d # e => Bytes(d) \cap Bytes(e) = {}
  BY <1>1, ApartByBytes
<1> QED
  BY <1>1, <1>2, <1>3 DEF ByteInv, Accounted, IInv, FreeListCanonical, Separated,
                          OwnersDisjoint

-----------------------------------------------------------------------------
(* The theorems.                                                           *)

\* A store that has just been created satisfies the invariant.
LEMMA InitInv == Init => ByteInv
<1> SUFFICES ASSUME Init
             PROVE  ByteInv
  OBVIOUS
<1>1. /\ fl = << >> /\ flcap = 0 /\ file_end = LS_SUPER_SIZE
      /\ Owned = {} /\ held = {} /\ freeing = {} /\ lost = {}
  BY DEF Init, Owned
<1>2. TypeOK
  BY <1>1, SuperAssumption DEF TypeOK
<1>3. Accounted(fl, Owned, file_end)
  BY <1>1, AccountEmpty
<1> QED
  BY <1>1, <1>2, <1>3 DEF ByteInv

\* Every step of every entry point preserves the invariant.
LEMMA NextInv == ByteInv /\ [Next]_vars => ByteInv'
<1> SUFFICES ASSUME ByteInv, [Next]_vars
             PROVE  ByteInv'
  OBVIOUS
<1>0. /\ TypeOK
      /\ fl \in Seq(Extent) /\ file_end \in Nat /\ Owned \in SUBSET Extent
      /\ Accounted(fl, Owned, file_end)
  BY DEF ByteInv, TypeOK, Owned
<1>h. ASSUME NEW e \in Extent, e \notin Owned, held' = held \cup {e},
             Accounted(fl', Owned \cup {e}, file_end'),
             UNCHANGED <<flcap, freeing, lost>>
      PROVE  ByteInv'
  <2>1. Owned' = Owned \cup {e}
    BY <1>h DEF Owned
  <2>2. fl' \in Seq(Extent) /\ file_end' \in Nat
    BY <1>h DEF Accounted
  <2>3. TypeOK'
    BY <2>2, <1>0, <1>h DEF TypeOK
  <2>4. held' \cap freeing' = {} /\ held' \cap lost' = {} /\ freeing' \cap lost' = {}
    BY <1>h DEF ByteInv, Owned
  <2> QED
    BY <2>1, <2>3, <2>4, <1>h DEF ByteInv
<1>1. ASSUME NEW n \in Requests, ls_alloc_best(n)
      PROVE  ByteInv'
  <2>1. PICK need : need = round_up(n)
    OBVIOUS
  <2>2. PICK e : e = [foff |-> fl[BestFit(fl, need)].foff, len |-> need]
    OBVIOUS
  <2>3. need \in Nat \ {0}
    BY <2>1, RoundUpProps, RequestsAssumption
  <2>4. /\ Fitting(fl, need) # {}
        /\ fl' = TakeFront(fl, BestFit(fl, need), need)
        /\ held' = held \cup {e}
        /\ UNCHANGED <<flcap, file_end, freeing, lost>>
    BY <1>1, <2>1, <2>2 DEF ls_alloc_best
  <2>5. e \in Extent /\ e \notin Owned /\ Accounted(fl', Owned \cup {e}, file_end)
    BY <1>0, <2>2, <2>3, <2>4, AccountBest
  <2> QED
    BY <2>4, <2>5, <1>h
<1>2. ASSUME NEW n \in Requests, ls_alloc_largest(n)
      PROVE  ByteInv'
  <2>1. PICK e : e = fl[Largest(fl)]
    OBVIOUS
  <2>2. /\ fl # << >>
        /\ fl' = RemoveAt(fl, Largest(fl))
        /\ held' = held \cup {e}
        /\ UNCHANGED <<flcap, file_end, freeing, lost>>
    BY <1>2, <2>1 DEF ls_alloc_largest
  <2>3. e \in Extent /\ e \notin Owned /\ Accounted(fl', Owned \cup {e}, file_end)
    BY <1>0, <2>1, <2>2, AccountLargest
  <2> QED
    BY <2>2, <2>3, <1>h
<1>3. ASSUME NEW n \in Requests, ls_alloc_tail(n)
      PROVE  ByteInv'
  <2>1. PICK need : need = round_up(n)
    OBVIOUS
  <2>2. PICK e : e = [foff |-> file_end, len |-> need]
    OBVIOUS
  <2>3. need \in Nat \ {0}
    BY <2>1, RoundUpProps, RequestsAssumption
  <2>4. /\ held' = held \cup {e} /\ file_end' = file_end + need
        /\ UNCHANGED <<fl, flcap, freeing, lost>>
    BY <1>3, <2>1, <2>2 DEF ls_alloc_tail
  <2>5. /\ e \in Extent /\ e \notin Owned
        /\ Accounted(fl, Owned \cup {e}, file_end + need)
    BY <1>0, <2>2, <2>3, AccountTail
  <2> QED
    BY <2>4, <2>5, <1>h
<1>4. ASSUME NEW es \in SUBSET held, ls_free_extents(es)
      PROVE  ByteInv'
  <2>1. /\ freeing = {} /\ freeing' = es /\ held' = held \ es
        /\ UNCHANGED <<fl, flcap, file_end, lost>>
    BY <1>4 DEF ls_free_extents
  <2>2. Owned' = Owned
    BY <2>1 DEF Owned
  <2>3. TypeOK'
    BY <2>1, <1>0 DEF TypeOK
  <2>4. held' \cap freeing' = {} /\ held' \cap lost' = {} /\ freeing' \cap lost' = {}
    BY <2>1 DEF ByteInv
  <2> QED
    BY <2>1, <2>2, <2>3, <2>4, <1>0 DEF ByteInv
<1>5. ASSUME NEW e \in freeing, FreeOne(e)
      PROVE  ByteInv'
  <2>1. PICK r : r = fl_insert(fl, file_end, e)
    OBVIOUS
  <2>2. /\ fl' = r.fl /\ file_end' = r.file_end
        /\ freeing' = freeing \ {e} /\ UNCHANGED <<held, lost>>
    BY <1>5, <2>1 DEF FreeOne
  <2>3. flcap' \in Nat
    BY <1>0, <1>5, FlCapAssumption DEF FreeOne, GrownCap, TypeOK
  <2>4. e \in Owned
    BY DEF Owned
  <2>5. Accounted(fl', Owned \ {e}, file_end')
    BY <1>0, <2>1, <2>2, <2>4, AccountGivenBack
  <2>6. Owned' = Owned \ {e}
    BY <2>2 DEF Owned, ByteInv
  <2>7. fl' \in Seq(Extent) /\ file_end' \in Nat
    BY <2>5 DEF Accounted
  <2>8. TypeOK'
    BY <2>2, <2>3, <2>7, <1>0 DEF TypeOK
  <2>9. held' \cap freeing' = {} /\ held' \cap lost' = {} /\ freeing' \cap lost' = {}
    BY <2>2 DEF ByteInv
  <2> QED
    BY <2>5, <2>6, <2>8, <2>9 DEF ByteInv
<1>6. ASSUME NEW e \in freeing, FreeOneNoMem(e)
      PROVE  ByteInv'
  <2>1. /\ freeing' = freeing \ {e} /\ lost' = lost \cup {e}
        /\ UNCHANGED <<fl, flcap, file_end, held>>
    BY <1>6 DEF FreeOneNoMem
  <2>2. Owned' = Owned
    BY <2>1 DEF Owned
  <2>3. TypeOK'
    BY <2>1, <1>0 DEF TypeOK
  <2>4. held' \cap freeing' = {} /\ held' \cap lost' = {} /\ freeing' \cap lost' = {}
    BY <2>1 DEF ByteInv
  <2> QED
    BY <2>1, <2>2, <2>3, <2>4, <1>0 DEF ByteInv
<1>7. CASE UNCHANGED vars
  BY <1>0, <1>7 DEF vars, ByteInv, TypeOK, Owned
<1> QED
  BY <1>1, <1>2, <1>3, <1>4, <1>5, <1>6, <1>7 DEF Next

\* For every alignment, superblock size and set of request sizes, and without
\* any bound on the file, the allocator keeps its free list canonical and
\* accounts for every byte of the file exactly once.
THEOREM AllocInvariant == Spec => []IInv
<1>1. Spec => []ByteInv
  BY InitInv, NextInv, PTL DEF Spec
<1> QED
  BY <1>1, ByteInvIsIInv, PTL

\* The variables keep their types.
THEOREM AllocTypeCorrect == Spec => []TypeOK
<1>1. IInv => TypeOK
  BY DEF IInv
<1> QED
  BY <1>1, AllocInvariant, PTL

\* No byte is handed out twice, lost or given back into the superblock.
THEOREM AllocPartition == Spec => []SpacePartitioned
<1>1. IInv => SpacePartitioned
  BY DEF IInv
<1> QED
  BY <1>1, AllocInvariant, PTL

\* Extents handed out never overlap.
THEOREM AllocOwnersDisjoint == Spec => []OwnersDisjoint
<1>1. IInv => OwnersDisjoint
  BY DEF IInv
<1> QED
  BY <1>1, AllocInvariant, PTL

\* The free list stays sorted, coalesced and clear of the end of the file.
THEOREM AllocFreeList == Spec => []FreeListCanonical
<1>1. IInv => FreeListCanonical
  BY DEF IInv
<1> QED
  BY <1>1, AllocInvariant, PTL

\* A store that has had everything given back to it, and lost nothing to a
\* failed insertion, is its superblock and nothing else.
THEOREM AllocDrains == Spec => []EmptyWhenDrained
<1>1. ByteInv => EmptyWhenDrained
  <2> SUFFICES ASSUME ByteInv, Owned = {}
               PROVE  fl = << >> /\ file_end = LS_SUPER_SIZE
    BY DEF EmptyWhenDrained
  <2>0. /\ fl \in Seq(Extent) /\ file_end \in Nat /\ LS_SUPER_SIZE \in Nat
        /\ LS_SUPER_SIZE <= file_end
    BY SuperAssumption DEF ByteInv, Accounted, TypeOK
  <2>1. \A b \in Int : InHole(b, fl) <=> LS_SUPER_SIZE <= b /\ b < file_end
    BY DEF ByteInv, Accounted, Partitioned, InOwned
  <2>2. file_end = LS_SUPER_SIZE
    <3> SUFFICES ASSUME LS_SUPER_SIZE < file_end
                 PROVE  FALSE
      BY <2>0
    <3>1. InHole(file_end - 1, fl)
      BY <2>0, <2>1
    <3>2. PICK i \in DOMAIN fl : In(file_end - 1, fl[i])
      BY <3>1 DEF InHole
    <3>3. fl[i].foff \in Nat /\ fl[i].len \in Nat
      BY <2>0, HoleFields
    <3>4. fl[i].foff + fl[i].len < file_end
      BY DEF ByteInv, Accounted, End
    <3> QED
      BY <3>2, <3>3, <3>4, <2>0 DEF In
  <2>3. fl = << >>
    <3>1. \A i \in DOMAIN fl : FALSE
      <4> SUFFICES ASSUME NEW i \in DOMAIN fl
                   PROVE  FALSE
        OBVIOUS
      <4>1. fl[i].foff \in Nat /\ fl[i].len \in Nat /\ fl[i].len > 0
        BY <2>0, HoleFields
      <4>2. In(fl[i].foff, fl[i])
        BY <4>1 DEF In
      <4>3. InHole(fl[i].foff, fl)
        BY <4>2 DEF InHole
      <4> QED
        BY <4>1, <4>3, <2>0, <2>1, <2>2
    <3> QED
      BY <3>1, <2>0, HoleFields
  <2> QED
    BY <2>2, <2>3
<1>2. IInv => EmptyWhenDrained
  BY <1>1, ByteInvIsIInv
<1> QED
  BY <1>2, AllocInvariant, PTL

-----------------------------------------------------------------------------
(* Alignment.                                                              *)

\* All of the file lies on the grid: extents, holes and its end.
GridInv ==
    /\ \A e \in Owned : OnGrid(e)
    /\ AllOnGrid(fl)
    /\ (file_end - LS_SUPER_SIZE) % LS_ALIGN = 0

LEMMA NextGrid ==
    ASSUME ByteInv, GridInv, [Next]_vars
    PROVE  GridInv'
<1>0. fl \in Seq(Extent) /\ file_end \in Nat /\ Owned \subseteq Extent /\ Separated(fl)
  BY DEF ByteInv, Accounted, TypeOK, Owned
<1>1. ASSUME NEW n \in Requests, ls_alloc_best(n)
      PROVE  GridInv'
  <2> DEFINE need == round_up(n)
             k == BestFit(fl, need)
  <2>1. need \in Nat \ {0} /\ need % LS_ALIGN = 0
    BY RoundUpProps, RoundUpAligned, RequestsAssumption
  <2>2. k \in Fitting(fl, need)
    BY <1>0, <1>1, <2>1, BestFitProps DEF ls_alloc_best
  <2>3. k \in DOMAIN fl /\ need <= fl[k].len /\ fl[k] \in Extent
    BY <2>1, <2>2, <1>0, HoleFields DEF Fitting
  <2>4. /\ held' = held \cup {[foff |-> fl[k].foff, len |-> need]}
        /\ fl' = TakeFront(fl, k, need) /\ UNCHANGED <<file_end, freeing, lost>>
    BY <1>1 DEF ls_alloc_best
  <2> HIDE DEF need, k
  <2>5. OnGrid([foff |-> fl[k].foff, len |-> need])
    BY <2>1, <2>3 DEF GridInv, AllOnGrid, OnGrid
  <2>6. AllOnGrid(fl')
    <3>1. AllOnGrid(fl)
      BY DEF GridInv
    <3> QED
      BY <1>0, <2>1, <2>3, <2>4, <3>1, GridTakeFront
  <2> QED
    BY <2>4, <2>5, <2>6 DEF GridInv, Owned
<1>2. ASSUME NEW n \in Requests, ls_alloc_largest(n)
      PROVE  GridInv'
  <2> DEFINE k == Largest(fl)
  <2>1. \A i \in DOMAIN fl : fl[i].len <= file_end
    <3> SUFFICES ASSUME NEW i \in DOMAIN fl
                 PROVE  fl[i].len <= file_end
      OBVIOUS
    <3>1. fl[i].foff \in Nat /\ fl[i].len \in Nat
      BY <1>0, HoleFields
    <3>2. fl[i].foff + fl[i].len < file_end
      BY DEF ByteInv, Accounted, End
    <3> QED
      BY <3>1, <3>2, <1>0
  <2>2. k \in DOMAIN fl
    BY <2>1, <1>0, <1>2, LargestProps DEF ls_alloc_largest
  <2>3. k \in 1 .. Len(fl) /\ OnGrid(fl[k])
    BY <2>2, <1>0, HoleFields DEF GridInv, AllOnGrid
  <2>4. /\ held' = held \cup {fl[k]} /\ fl' = RemoveAt(fl, k)
        /\ UNCHANGED <<file_end, freeing, lost>>
    BY <1>2 DEF ls_alloc_largest
  <2> HIDE DEF k
  <2>5. AllOnGrid(fl')
    BY <1>0, <2>3, <2>4, GridRemoveAt DEF GridInv
  <2> QED
    BY <2>3, <2>4, <2>5 DEF GridInv, Owned
<1>3. ASSUME NEW n \in Requests, ls_alloc_tail(n)
      PROVE  GridInv'
  <2> DEFINE need == round_up(n)
  <2>1. need \in Nat \ {0} /\ need % LS_ALIGN = 0
    BY RoundUpProps, RoundUpAligned, RequestsAssumption
  <2>2. /\ held' = held \cup {[foff |-> file_end, len |-> need]}
        /\ file_end' = file_end + need /\ UNCHANGED <<fl, freeing, lost>>
    BY <1>3 DEF ls_alloc_tail
  <2> HIDE DEF need
  <2>3. file_end - LS_SUPER_SIZE \in Int
    BY <1>0, SuperAssumption
  <2>4. ((file_end - LS_SUPER_SIZE) + need) % LS_ALIGN = 0
    BY <2>1, <2>3, MultiplesAdd DEF GridInv
  <2>5. (file_end - LS_SUPER_SIZE) + need = (file_end + need) - LS_SUPER_SIZE
    BY <1>0, <2>1, SuperAssumption
  <2> QED
    BY <2>1, <2>2, <2>4, <2>5 DEF GridInv, OnGrid, Owned
<1>4. ASSUME NEW es \in SUBSET held, ls_free_extents(es)
      PROVE  GridInv'
  BY <1>4 DEF ls_free_extents, GridInv, Owned
<1>5. ASSUME NEW e \in freeing, FreeOne(e)
      PROVE  GridInv'
  <2>1. e \in Owned /\ e \in Extent /\ OnGrid(e)
    BY <1>0 DEF Owned, GridInv
  <2>2. OffList(e, fl)
    BY <2>1 DEF OffList, ByteInv, Accounted, Partitioned, InOwned
  <2>3. Coalesce(fl, e) \in Seq(Extent)
    BY <1>0, <2>1, <2>2, CoalesceProps
  <2>4. /\ AllOnGrid(fl_insert(fl, file_end, e).fl)
        /\ (fl_insert(fl, file_end, e).file_end - LS_SUPER_SIZE) % LS_ALIGN = 0
    BY <1>0, <2>1, <2>3, GridFlInsert DEF GridInv
  <2>5. /\ fl' = fl_insert(fl, file_end, e).fl /\ file_end' = fl_insert(fl, file_end, e).file_end
        /\ freeing' = freeing \ {e} /\ UNCHANGED <<held, lost>>
    BY <1>5 DEF FreeOne
  <2> QED
    BY <2>4, <2>5 DEF GridInv, Owned
<1>6. ASSUME NEW e \in freeing, FreeOneNoMem(e)
      PROVE  GridInv'
  BY <1>6 DEF FreeOneNoMem, GridInv, Owned
<1>7. CASE UNCHANGED vars
  BY <1>7 DEF vars, GridInv, Owned
<1> QED
  BY <1>1, <1>2, <1>3, <1>4, <1>5, <1>6, <1>7 DEF Next

\* For every alignment and any sizes asked for, extents and holes begin and end
\* on multiples of LS_ALIGN from the superblock, whatever splits and merges.
THEOREM AllocAligned == Spec => []Aligned
<1>1. Init => GridInv
  <2>1. (LS_SUPER_SIZE - LS_SUPER_SIZE) % LS_ALIGN = 0
    <3>1. LS_SUPER_SIZE - LS_SUPER_SIZE = 0 /\ 0 = 0 * LS_ALIGN
      BY SuperAssumption, AlignAssumption
    <3> QED
      BY <3>1, MultipleOf
  <2> QED
    BY <2>1 DEF Init, GridInv, Owned, AllOnGrid
<1>2. GridInv /\ ByteInv => Aligned
  <2> SUFFICES ASSUME GridInv, NEW e \in Owned \cup Range(fl)
               PROVE  OnGrid(e)
    BY DEF Aligned, OnGrid
  <2> QED
    BY DEF GridInv, AllOnGrid, Range
<1> QED
  BY <1>1, <1>2, InitInv, NextInv, NextGrid, PTL DEF Spec

\* ls_alloc_live, which subtracts the holes from the file, is what callers own:
\* the sum over the hole array and the sum over the owners are the sizes of two
\* sets that share out the file.
THEOREM AllocLive == Spec => []LiveIsOwned
<1>1. IInv => LiveIsOwned
  <2> SUFFICES ASSUME IInv
               PROVE  LiveIsOwned
    OBVIOUS
  <2>1. Accounted(fl, Owned, file_end)
    BY ByteInvIsIInv DEF ByteInv
  <2>2. file_end - LS_SUPER_SIZE - FoldLengths(fl) = SumLengths(Owned)
    BY <2>1, AccountLive
  <2>3. ls_alloc_live = file_end - LS_SUPER_SIZE - FoldLengths(fl)
    BY Zenon DEF ls_alloc_live, FoldLengths
  <2>4. LiveIsOwned <=> ls_alloc_live = SumLengths(Owned)
    BY Zenon DEF LiveIsOwned, SumLengths
  <2> QED
    BY <2>2, <2>3, <2>4
<1> QED
  BY <1>1, AllocInvariant, PTL
=============================================================================
