----------------------------- MODULE SlabProofs ------------------------------
(***************************************************************************)
(* The allocator of module Slab never runs into an assertion or a panic,   *)
(* whatever the number of threads, of slabs and of objects in a slab.      *)
(***************************************************************************)
EXTENDS Slab, FiniteSetTheorems, TLAPS

\* The time limits of the provers, in seconds.
USE SMTT(30), ZenonT(30)

-----------------------------------------------------------------------------
\* The sets that the invariant counts are finite.
LEMMA FiniteSets ==
    /\ \A s \in Slab : IsFiniteSet(Out(s)) /\ Cardinality(Out(s)) \in Nat
    /\ \A s \in Slab : IsFiniteSet(Claims(s)) /\ Cardinality(Claims(s)) \in Nat
    /\ \A o \in Obj : IsFiniteSet(Holders(o)) /\ Cardinality(Holders(o)) \in Nat
  <1>1. ASSUME NEW s \in Slab PROVE IsFiniteSet(Out(s)) /\ Cardinality(Out(s)) \in Nat
    <2>1. IsFiniteSet(1..Max)
      BY FS_Interval, MaxAssumption
    <2>2. Out(s) \in SUBSET (1..Max)
      BY DEF Out
    <2>3. QED
      BY <2>1, <2>2, FS_Subset, FS_CardinalityType, ZenonT(40)
  <1>2. ASSUME NEW s \in Slab PROVE IsFiniteSet(Claims(s)) /\ Cardinality(Claims(s)) \in Nat
    <2>1. Claims(s) \in SUBSET Thread
      BY DEF Claims
    <2>2. QED
      BY <2>1, ThreadAssumption, FS_Subset, FS_CardinalityType
  <1>3. ASSUME NEW o \in Obj PROVE IsFiniteSet(Holders(o)) /\ Cardinality(Holders(o)) \in Nat
    <2>1. Holders(o) \in SUBSET Thread
      BY DEF Holders
    <2>2. QED
      BY <2>1, ThreadAssumption, FS_Subset, FS_CardinalityType
  <1>4. QED
    BY <1>1, <1>2, <1>3

\* A thread that is about to pop finds an object on the stack of its slab:
\* it is one of those the count of the slab stands for, and the count is at
\* most Max, so at least one object is not out.
LEMMA StackNotEmpty ==
    ASSUME IInv, NEW t \in Thread, pc[t] = "pop"
    PROVE  {o \in free : o[1] = slab[t]} # {}
  <1> DEFINE s == slab[t]
  <1>1. s \in Slab /\ t \in Claims(s)
    BY DEF IInv, LocalsInv, Claims
  <1>2. list[s] # "none"
    BY <1>1 DEF IInv, NewInv
  <1>3. Cardinality(Claims(s)) >= 1
    <2>1. Claims(s) # {}
      BY <1>1
    <2>2. Cardinality(Claims(s)) # 0
      BY <1>1, <2>1, FiniteSets, FS_EmptySet
    <2>3. QED
      BY <1>1, <2>2, FiniteSets
  <1>4. Cardinality(Out(s)) < Max
    <2>1. count[s] = Cardinality(Out(s)) + Cardinality(Claims(s))
      BY <1>1, <1>2 DEF IInv, CountInv
    <2>2. count[s] <= Max /\ count[s] \in Nat
      BY <1>1, MaxAssumption DEF IInv, TypeOK
    <2>3. QED
      BY <1>1, <1>3, <2>1, <2>2, FiniteSets, MaxAssumption
  <1>5. PICK i \in 1..Max : i \notin Out(s)
    <2>1. Out(s) # 1..Max
      BY <1>4, FS_Interval, MaxAssumption
    <2>2. QED
      BY <2>1 DEF Out
  <1>6. <<s, i>> \in free
    BY <1>5 DEF Out
  <1>7. QED
    BY <1>6

-----------------------------------------------------------------------------
\* The initial state.
LEMMA InitInv == Init => IInv
  <1> SUFFICES ASSUME Init PROVE IInv
    OBVIOUS
  <1>1. TypeOK
    <2>1. initialized \in BOOLEAN
      BY ZenonT(40) DEF Init
    <2>2. 0 \in 0..Max
      BY MaxAssumption
    <2>3. QED
      BY <2>1, <2>2 DEF Init, TypeOK
  <1>2. NoPanic /\ LocalsInv
    BY DEF Init, NoPanic, LocalsInv
  <1>3. NewInv
    BY DEF Init, NewInv, Claims, Holders, Carries
  <1>4. CountInv
    BY DEF Init, CountInv
  <1>5. ListFitsCount
    BY MaxAssumption DEF Init, ListFitsCount
  <1>6. OneOwner
    BY DEF Init, OneOwner, Holders, Carries
  <1>7. QED
    BY <1>1, <1>2, <1>3, <1>4, <1>5, <1>6 DEF IInv

\* kobj_allocate's initialization of the cache.
LEMMA AllocateStep ==
    ASSUME IInv, NEW t \in Thread, Allocate(t) PROVE IInv'
  <1>0. TypeOK /\ pc[t] = "idle" /\ pc' = [pc EXCEPT ![t] = "take"]
    BY DEF IInv, Allocate, Goto
  <1>1. TypeOK'
    BY <1>0 DEF Allocate, TypeOK
  <1>2. NoPanic' /\ LocalsInv'
    BY <1>0 DEF IInv, Allocate, NoPanic, LocalsInv, TypeOK
  <1>3. /\ \A s \in Slab : Claims(s)' = Claims(s)
        /\ \A s \in Slab : Out(s)' = Out(s)
        /\ \A o \in Obj : Holders(o)' = Holders(o)
        /\ \A u \in Thread, o \in Obj : Carries(u, o)' <=> Carries(u, o)
    BY <1>0 DEF Allocate, Claims, Out, Holders, Carries, TypeOK
  <1>4. NewInv'
    BY <1>3 DEF IInv, Allocate, NewInv, Obj
  <1>5. CountInv'
    BY <1>3 DEF IInv, Allocate, CountInv
  <1>6. ListFitsCount'
    BY DEF IInv, Allocate, ListFitsCount
  <1>7. OneOwner'
    BY <1>3 DEF IInv, Allocate, OneOwner
  <1>8. QED
    BY <1>1, <1>2, <1>4, <1>5, <1>6, <1>7 DEF IInv

\* The choice of a slab.
LEMMA TakeSlabStep ==
    ASSUME IInv, NEW t \in Thread, TakeSlab(t) PROVE IInv'
  <1>0. TypeOK /\ pc[t] = "take" /\ pc' = [pc EXCEPT ![t] = "pop"]
    BY DEF IInv, TakeSlab, Goto
  <1>s. PICK s \in Slab :
          /\ Choose(s)
          /\ create_new_slab(s)
          /\ count' = [count EXCEPT ![s] = @ + 1]
          /\ slab' = [slab EXCEPT ![t] = s]
          /\ list' = [list EXCEPT ![s] = IF count[s] = Max - 1 THEN "full"
                                         ELSE IF count[s] = 0 THEN "partial"
                                         ELSE @]
          /\ total_inuse' = IF count[s] # Max - 1 /\ count[s] = 0
                            THEN total_inuse + 1 ELSE total_inuse
    BY ZenonT(40) DEF TakeSlab
  <1>u. UNCHANGED <<initialized, allocated_objects, refs, hold, obj>>
    BY DEF TakeSlab
  <1>c. /\ list[s] \in {"partial", "empty", "none"}
        /\ list[s] # "partial" => count[s] = 0
        /\ list[s] = "partial" => count[s] # 0
        /\ count[s] \in 0..(Max - 1)
    BY <1>0, <1>s, MaxAssumption DEF Choose, IInv, ListFitsCount, TypeOK
  <1>1. TypeOK'
    <2>1. count' \in [Slab -> 0..Max]
      BY <1>0, <1>s, <1>c, MaxAssumption DEF TypeOK
    <2>2. free' \subseteq Obj /\ total_slabs' \in Nat
      BY <1>0, <1>s DEF TypeOK, create_new_slab, Obj
    <2>3. QED
      BY <1>0, <1>s, <1>u, <2>1, <2>2 DEF TypeOK
  <1>2. NoPanic' /\ LocalsInv'
    BY <1>0, <1>s, <1>u DEF IInv, NoPanic, LocalsInv, TypeOK
  <1>3. /\ Claims(s)' = Claims(s) \cup {t}
        /\ t \notin Claims(s)
        /\ \A x \in Slab \ {s} : Claims(x)' = Claims(x)
    BY <1>0, <1>s, <1>u DEF Claims, TypeOK
  <1>4. /\ \A o \in Obj : Holders(o)' = Holders(o)
        /\ \A u \in Thread, o \in Obj : Carries(u, o)' <=> Carries(u, o)
    BY <1>0, <1>u DEF Holders, Carries, TypeOK
  <1>5. /\ \A x \in Slab \ {s} : Out(x)' = Out(x)
        /\ list[s] # "none" => Out(s)' = Out(s)
        /\ list[s] = "none" => Out(s)' = {}
    BY <1>s DEF Out, create_new_slab
  <1>6. list'[s] # "none" /\ \A x \in Slab \ {s} : list'[x] = list[x] /\ count'[x] = count[x]
    BY <1>0, <1>s, <1>c DEF TypeOK
  <1>7. NewInv'
    <2>1. ASSUME NEW x \in Slab, list'[x] = "none"
          PROVE  x # s /\ list[x] = "none" /\ Claims(x)' = {}
      BY <1>3, <1>6, <2>1 DEF IInv, NewInv
    <2>2. ASSUME NEW x \in Slab, list'[x] = "none", NEW i \in 1..Max
          PROVE  /\ <<x, i>> \notin free'
                 /\ Holders(<<x, i>>)' = {}
                 /\ \A u \in Thread : ~Carries(u, <<x, i>>)'
      <3>1. x # s /\ list[x] = "none" /\ <<x, i>> \in Obj
        BY <2>1, <2>2 DEF Obj
      <3>2. <<x, i>> \notin free'
        BY <1>s, <3>1 DEF IInv, NewInv, create_new_slab
      <3>3. QED
        BY <1>4, <3>1, <3>2 DEF IInv, NewInv
    <2>3. QED
      BY <2>1, <2>2 DEF NewInv
  <1>8. CountInv'
    <2> SUFFICES ASSUME NEW x \in Slab, list'[x] # "none"
                 PROVE  count'[x] = Cardinality(Out(x)') + Cardinality(Claims(x)')
      BY DEF CountInv
    <2>1. CASE x # s
      BY <1>3, <1>5, <1>6, <2>1 DEF IInv, CountInv
    <2>2. CASE x = s
      <3>1. Cardinality(Claims(s)') = Cardinality(Claims(s)) + 1
        BY <1>3, FiniteSets, FS_AddElement, ZenonT(40)
      <3>2. count'[s] = count[s] + 1
        BY <1>0, <1>s DEF TypeOK
      <3>3. CASE list[s] # "none"
        BY <1>5, <2>2, <3>1, <3>2, <3>3, FiniteSets DEF IInv, CountInv
      <3>4. CASE list[s] = "none"
        <4>1. Claims(s) = {} /\ count[s] = 0
          BY <1>c, <3>4 DEF IInv, NewInv
        <4>2. Cardinality(Claims(s)) = 0 /\ Cardinality(Out(s)') = 0
          BY <1>5, <3>4, <4>1, FS_EmptySet
        <4>3. QED
          BY <2>2, <3>1, <3>2, <4>1, <4>2
      <3>5. QED
        BY <3>3, <3>4
    <2>3. QED
      BY <2>1, <2>2
  <1>9. ListFitsCount'
    <2> SUFFICES ASSUME NEW x \in Slab
                 PROVE  /\ list'[x] \in {"none", "empty"} <=> count'[x] = 0
                        /\ list'[x] = "full" <=> count'[x] = Max
      BY DEF ListFitsCount
    <2>1. CASE x # s
      BY <1>6, <2>1 DEF IInv, ListFitsCount
    <2>2. CASE x = s
      BY <1>0, <1>s, <1>c, <2>2, MaxAssumption DEF TypeOK
    <2>3. QED
      BY <2>1, <2>2
  <1>10. OneOwner'
    <2> SUFFICES ASSUME NEW o \in Obj
                 PROVE  /\ o \in free' => Holders(o) = {} /\ \A u \in Thread : ~Carries(u, o)
                        /\ \A u, v \in Thread : Carries(u, o) /\ Carries(v, o) => u = v
                        /\ \A u \in Thread : Carries(u, o) => Holders(o) = {}
                        /\ Holders(o) # {} => refs[o] = Cardinality(Holders(o))
      BY <1>4, <1>u DEF OneOwner
    <2>1. ASSUME o \in free' PROVE Holders(o) = {} /\ \A u \in Thread : ~Carries(u, o)
      <3>1. CASE o \in free
        BY <3>1 DEF IInv, OneOwner
      <3>2. CASE o \notin free
        <4>1. list[s] = "none" /\ o \in {s} \X (1..Max)
          BY <1>s, <2>1, <3>2 DEF create_new_slab
        <4>2. PICK i \in 1..Max : o = <<s, i>>
          BY <4>1
        <4>3. QED
          BY <4>1, <4>2 DEF IInv, NewInv
      <3>3. QED
        BY <3>1, <3>2
    <2>2. QED
      BY <2>1 DEF IInv, OneOwner
  <1>11. QED
    BY <1>1, <1>2, <1>7, <1>8, <1>9, <1>10 DEF IInv

\* The pop.
LEMMA PopStep ==
    ASSUME IInv, NEW t \in Thread, Pop(t) PROVE IInv'
  <1>0. /\ TypeOK /\ pc[t] = "pop" /\ pc' = [pc EXCEPT ![t] = "return"]
        /\ slab' = [slab EXCEPT ![t] = NULL]
    BY DEF IInv, Pop, Goto
  <1>s. PICK s \in Slab : s = slab[t]
    BY <1>0 DEF IInv, LocalsInv
  <1>u. UNCHANGED <<list, count, refs, hold>>
    BY DEF Pop, cacheVars
  <1>p. PICK o \in free : /\ o[1] = s
                         /\ obj' = [obj EXCEPT ![t] = o]
                         /\ free' = free \ {o}
    BY <1>0, <1>s, StackNotEmpty DEF Pop
  <1>i. PICK i \in 1..Max : o = <<s, i>>
    BY <1>0, <1>p DEF TypeOK, Obj
  <1>1. TypeOK'
    BY <1>0, <1>p DEF TypeOK, Pop, cacheVars
  <1>2. NoPanic' /\ LocalsInv'
    BY <1>0, <1>p DEF IInv, NoPanic, LocalsInv, TypeOK
  <1>3. /\ Claims(s)' = Claims(s) \ {t}
        /\ t \in Claims(s)
        /\ \A x \in Slab \ {s} : Claims(x)' = Claims(x)
    BY <1>0, <1>s, <1>p DEF Claims, TypeOK
  <1>4. /\ Out(s)' = Out(s) \cup {i}
        /\ i \notin Out(s)
        /\ \A x \in Slab \ {s} : Out(x)' = Out(x)
    BY <1>0, <1>p, <1>i DEF Out
  <1>5. \A x \in Obj : Holders(x)' = Holders(x)
    BY <1>u DEF Holders
  <1>6. /\ \A u \in Thread \ {t}, x \in Obj : Carries(u, x)' <=> Carries(u, x)
        /\ \A x \in Obj : Carries(t, x)' <=> x = o
        /\ \A x \in Obj : ~Carries(t, x)
    BY <1>0, <1>p DEF Carries, TypeOK
  <1>7. NewInv'
    <2>1. list[s] # "none"
      BY <1>0, <1>3 DEF IInv, NewInv
    <2>2. ASSUME NEW x \in Slab, list[x] = "none"
          PROVE  x # s /\ Claims(x)' = {}
      BY <1>3, <2>1, <2>2 DEF IInv, NewInv
    <2>3. ASSUME NEW x \in Slab, list[x] = "none", NEW j \in 1..Max
          PROVE  /\ <<x, j>> \notin free'
                 /\ Holders(<<x, j>>)' = {}
                 /\ \A u \in Thread : ~Carries(u, <<x, j>>)'
      <3>1. x # s /\ <<x, j>> \in Obj /\ <<x, j>> # o
        BY <1>i, <2>2, <2>3 DEF Obj
      <3>2. <<x, j>> \notin free'
        BY <1>p, <2>3 DEF IInv, NewInv
      <3>3. QED
        BY <1>5, <1>6, <2>3, <3>1, <3>2 DEF IInv, NewInv
    <2>4. QED
      BY <1>u, <2>2, <2>3 DEF NewInv
  <1>8. CountInv'
    <2> SUFFICES ASSUME NEW x \in Slab, list[x] # "none"
                 PROVE  count[x] = Cardinality(Out(x)') + Cardinality(Claims(x)')
      BY <1>u DEF CountInv
    <2>1. CASE x # s
      BY <1>3, <1>4, <2>1 DEF IInv, CountInv
    <2>2. CASE x = s
      <3>1. Cardinality(Claims(s)') = Cardinality(Claims(s)) - 1
        BY <1>0, <1>3, FiniteSets, FS_RemoveElement, ZenonT(40)
      <3>2. Cardinality(Out(s)') = Cardinality(Out(s)) + 1
        BY <1>0, <1>4, FiniteSets, FS_AddElement, ZenonT(40)
      <3>3. QED
        BY <1>0, <2>2, <3>1, <3>2, FiniteSets DEF IInv, CountInv
    <2>3. QED
      BY <2>1, <2>2
  <1>9. ListFitsCount'
    BY <1>u DEF IInv, ListFitsCount
  <1>10. OneOwner'
    <2>0. OneOwner /\ o \in Obj
      BY <1>0, <1>p DEF IInv, TypeOK
    <2> SUFFICES ASSUME NEW x \in Obj
                 PROVE  /\ x \in free' => Holders(x) = {} /\ \A u \in Thread : ~Carries(u, x)'
                        /\ \A u, v \in Thread : Carries(u, x)' /\ Carries(v, x)' => u = v
                        /\ \A u \in Thread : Carries(u, x)' => Holders(x) = {}
                        /\ Holders(x) # {} => refs[x] = Cardinality(Holders(x))
      BY <1>5, <1>u DEF OneOwner
    <2>1. CASE x = o
      BY <1>p, <1>6, <2>0, <2>1 DEF OneOwner
    <2>2. CASE x # o
      BY <1>p, <1>6, <2>0, <2>2 DEF OneOwner
    <2>3. QED
      BY <2>1, <2>2
  <1>11. QED
    BY <1>1, <1>2, <1>7, <1>8, <1>9, <1>10 DEF IInv

\* The end of kobj_allocate.
LEMMA ReturnStep ==
    ASSUME IInv, NEW t \in Thread, Return(t) PROVE IInv'
  <1>o. PICK o \in Obj : o = obj[t]
    BY DEF IInv, LocalsInv, Return, Goto
  <1>0. /\ TypeOK /\ pc[t] = "return" /\ pc' = [pc EXCEPT ![t] = "idle"]
        /\ refs' = [refs EXCEPT ![o] = 1]
        /\ hold' = hold \cup {<<t, o>>}
        /\ obj' = [obj EXCEPT ![t] = NULL]
    BY <1>o, NullAssumption, ZenonT(40) DEF IInv, Return, Goto, LocalsInv, Obj
  <1>u. UNCHANGED <<list, count, free, slab>>
    BY DEF Return, cacheVars
  <1>1. TypeOK'
    BY <1>0 DEF TypeOK, Return, cacheVars
  <1>2. NoPanic' /\ LocalsInv'
    BY <1>0, <1>u DEF IInv, NoPanic, LocalsInv, TypeOK
  <1>3. /\ \A x \in Slab : Claims(x)' = Claims(x)
        /\ \A x \in Slab : Out(x)' = Out(x)
    BY <1>0, <1>u DEF Claims, Out, TypeOK
  <1>4. /\ Holders(o)' = Holders(o) \cup {t}
        /\ \A x \in Obj \ {o} : Holders(x)' = Holders(x)
    BY <1>0 DEF Holders
  <1>5. /\ \A u \in Thread \ {t}, x \in Obj : Carries(u, x)' <=> Carries(u, x)
        /\ \A x \in Obj : ~Carries(t, x)'
        /\ Carries(t, o)
    BY <1>0, <1>o DEF Carries, TypeOK
  <1>6. NewInv'
    <2>1. ASSUME NEW x \in Slab, list[x] = "none", NEW i \in 1..Max
          PROVE  /\ <<x, i>> \notin free'
                 /\ Holders(<<x, i>>)' = {}
                 /\ \A u \in Thread : ~Carries(u, <<x, i>>)'
      <3>1. <<x, i>> \in Obj /\ <<x, i>> # o
        BY <1>5, <2>1 DEF IInv, NewInv, Obj
      <3>2. QED
        BY <1>u, <1>4, <1>5, <2>1, <3>1 DEF IInv, NewInv
    <2>2. QED
      BY <1>u, <1>3, <2>1 DEF IInv, NewInv
  <1>7. CountInv'
    BY <1>u, <1>3 DEF IInv, CountInv
  <1>8. ListFitsCount'
    BY <1>u DEF IInv, ListFitsCount
  <1>9. OneOwner'
    <2> SUFFICES ASSUME NEW x \in Obj
                 PROVE  /\ x \in free => Holders(x)' = {} /\ \A u \in Thread : ~Carries(u, x)'
                        /\ \A u, v \in Thread : Carries(u, x)' /\ Carries(v, x)' => u = v
                        /\ \A u \in Thread : Carries(u, x)' => Holders(x)' = {}
                        /\ Holders(x)' # {} => refs'[x] = Cardinality(Holders(x)')
      BY <1>u DEF OneOwner
    <2>1. CASE x = o
      <3>1. Holders(o) = {} /\ o \notin free /\ \A u \in Thread \ {t} : ~Carries(u, o)
        BY <1>0, <1>5 DEF IInv, OneOwner
      <3>2. Holders(o)' = {t}
        BY <1>4, <3>1
      <3>3. Cardinality(Holders(o)') = 1 /\ refs'[o] = 1
        BY <1>0, <3>2, FS_Singleton, ZenonT(40) DEF TypeOK
      <3>4. QED
        BY <1>5, <2>1, <3>1, <3>3
    <2>2. CASE x # o
      <3>1. Holders(x)' = Holders(x) /\ refs'[x] = refs[x]
        BY <1>0, <1>4, <2>2 DEF TypeOK
      <3>2. QED
        BY <1>5, <3>1 DEF IInv, OneOwner
    <2>3. QED
      BY <2>1, <2>2
  <1>10. QED
    BY <1>1, <1>2, <1>6, <1>7, <1>8, <1>9 DEF IInv

-----------------------------------------------------------------------------
\* kobj_getref, by a thread that has a reference itself.
LEMMA GetRefStep ==
    ASSUME IInv, NEW t \in Thread, NEW v \in Thread, NEW o \in Obj, GetRef(t, v, o)
    PROVE  IInv'
  <1>r. refs[o] = Cardinality(Holders(o)) /\ refs[o] # 0
    <2>1. t \in Holders(o)
      BY DEF GetRef, Holders
    <2>2. Cardinality(Holders(o)) # 0
      BY <2>1, FiniteSets, FS_EmptySet
    <2>3. QED
      BY <2>1, <2>2 DEF IInv, OneOwner
  <1>0. /\ TypeOK
        /\ refs' = [refs EXCEPT ![o] = @ + 1]
        /\ hold' = hold \cup {<<v, o>>}
        /\ <<t, o>> \in hold /\ <<v, o>> \notin hold
    BY <1>r DEF IInv, GetRef
  <1>u. UNCHANGED <<list, count, free, pc, slab, obj>>
    BY <1>r DEF GetRef, cacheVars
  <1>1. TypeOK'
    BY <1>0, <1>u DEF TypeOK, GetRef, cacheVars
  <1>2. NoPanic' /\ LocalsInv'
    BY <1>u DEF IInv, NoPanic, LocalsInv
  <1>3. /\ \A x \in Slab : Claims(x)' = Claims(x)
        /\ \A x \in Slab : Out(x)' = Out(x)
        /\ \A u \in Thread, x \in Obj : Carries(u, x)' <=> Carries(u, x)
    BY <1>u DEF Claims, Out, Carries
  <1>4. /\ Holders(o)' = Holders(o) \cup {v}
        /\ v \notin Holders(o)
        /\ t \in Holders(o)
        /\ \A x \in Obj \ {o} : Holders(x)' = Holders(x)
    BY <1>0 DEF Holders
  <1>5. NewInv'
    <2>1. ASSUME NEW x \in Slab, list[x] = "none", NEW i \in 1..Max
          PROVE  /\ <<x, i>> \notin free'
                 /\ Holders(<<x, i>>)' = {}
                 /\ \A u \in Thread : ~Carries(u, <<x, i>>)'
      <3>1. <<x, i>> \in Obj /\ <<x, i>> # o
        BY <1>4, <2>1 DEF IInv, NewInv, Obj
      <3>2. QED
        BY <1>u, <1>3, <1>4, <2>1, <3>1 DEF IInv, NewInv
    <2>2. QED
      BY <1>u, <1>3, <2>1 DEF IInv, NewInv
  <1>6. CountInv'
    BY <1>u, <1>3 DEF IInv, CountInv
  <1>7. ListFitsCount'
    BY <1>u DEF IInv, ListFitsCount
  <1>8. OneOwner'
    <2> SUFFICES ASSUME NEW x \in Obj
                 PROVE  /\ x \in free => Holders(x)' = {} /\ \A u \in Thread : ~Carries(u, x)
                        /\ \A u, w \in Thread : Carries(u, x) /\ Carries(w, x) => u = w
                        /\ \A u \in Thread : Carries(u, x) => Holders(x)' = {}
                        /\ Holders(x)' # {} => refs'[x] = Cardinality(Holders(x)')
      BY <1>u, <1>3 DEF OneOwner
    <2>1. CASE x = o
      <3>1. o \notin free /\ \A u \in Thread : ~Carries(u, o)
        BY <1>4 DEF IInv, OneOwner
      <3>2. Cardinality(Holders(o)') = Cardinality(Holders(o)) + 1
        <4>1. IsFiniteSet(Holders(o)) /\ Cardinality(Holders(o)) \in Nat
          BY FiniteSets
        <4>2. Cardinality(Holders(o) \cup {v}) = Cardinality(Holders(o)) + 1
          BY <1>4, <4>1, FS_AddElement, ZenonT(40)
        <4>3. QED
          BY <1>4, <4>2
      <3>3. refs'[o] = Cardinality(Holders(o)')
        BY <1>0, <1>r, <3>2 DEF TypeOK
      <3>4. QED
        BY <2>1, <3>1, <3>3
    <2>2. CASE x # o
      <3>1. Holders(x)' = Holders(x) /\ refs'[x] = refs[x]
        BY <1>0, <1>4, <2>2 DEF TypeOK
      <3>2. QED
        BY <3>1 DEF IInv, OneOwner
    <2>3. QED
      BY <2>1, <2>2
  <1>9. QED
    BY <1>1, <1>2, <1>5, <1>6, <1>7, <1>8 DEF IInv

\* kobj_putref: the thread that drops the last reference carries the object
\* from then on.
LEMMA PutRefStep ==
    ASSUME IInv, NEW t \in Thread, NEW o \in Obj, PutRef(t, o)
    PROVE  IInv'
  <1>h. t \in Holders(o) /\ pc[t] = "idle"
    BY DEF PutRef, Goto, Holders
  <1>r. refs[o] = Cardinality(Holders(o)) /\ refs[o] > 0
    <2>1. Cardinality(Holders(o)) # 0
      BY <1>h, FiniteSets, FS_EmptySet
    <2>2. QED
      BY <1>h, <2>1, FiniteSets DEF IInv, OneOwner
  <1>0. /\ TypeOK
        /\ pc' = [pc EXCEPT ![t] = IF refs[o] = 1 THEN "push" ELSE "idle"]
        /\ refs' = [refs EXCEPT ![o] = @ - 1]
        /\ hold' = hold \ {<<t, o>>}
        /\ obj' = [obj EXCEPT ![t] = IF pc'[t] = "push" THEN o ELSE NULL]
    <2>1. TypeOK /\ ~(refs[o] <= 0)
      BY <1>r DEF IInv, TypeOK
    <2>2. refs' = [refs EXCEPT ![o] = @ - 1]
      BY <2>1 DEF PutRef
    <2>3. QED
      BY <2>1, <2>2 DEF PutRef, Goto
  <1>u. UNCHANGED <<list, count, free, slab>>
    BY DEF PutRef, cacheVars
  <1>1. TypeOK'
    BY <1>0, <1>r, <1>u DEF TypeOK, PutRef, cacheVars
  <1>2. NoPanic' /\ LocalsInv'
    BY <1>0, <1>u DEF IInv, NoPanic, LocalsInv, TypeOK
  <1>3. /\ \A x \in Slab : Claims(x)' = Claims(x)
        /\ \A x \in Slab : Out(x)' = Out(x)
    BY <1>0, <1>h, <1>u DEF Claims, Out, TypeOK
  <1>4. /\ Holders(o)' = Holders(o) \ {t}
        /\ \A x \in Obj \ {o} : Holders(x)' = Holders(x)
    BY <1>0 DEF Holders
  <1>5. Cardinality(Holders(o)') = Cardinality(Holders(o)) - 1
    BY <1>4, <1>h, FiniteSets, FS_RemoveElement, ZenonT(40)
  <1>6. /\ \A u \in Thread \ {t}, x \in Obj : Carries(u, x)' <=> Carries(u, x)
        /\ \A x \in Obj : Carries(t, x)' => x = o /\ refs[o] = 1
    BY <1>0 DEF Carries, TypeOK
  <1>7. o \notin free /\ \A u \in Thread : ~Carries(u, o)
    BY <1>h DEF IInv, OneOwner
  <1>8. NewInv'
    <2>1. ASSUME NEW x \in Slab, list[x] = "none", NEW i \in 1..Max
          PROVE  /\ <<x, i>> \notin free'
                 /\ Holders(<<x, i>>)' = {}
                 /\ \A u \in Thread : ~Carries(u, <<x, i>>)'
      <3>1. <<x, i>> \in Obj /\ <<x, i>> # o
        BY <1>h, <2>1 DEF IInv, NewInv, Obj
      <3>2. QED
        BY <1>u, <1>4, <1>6, <2>1, <3>1 DEF IInv, NewInv
    <2>2. QED
      BY <1>u, <1>3, <2>1 DEF IInv, NewInv
  <1>9. CountInv'
    BY <1>u, <1>3 DEF IInv, CountInv
  <1>10. ListFitsCount'
    BY <1>u DEF IInv, ListFitsCount
  <1>11. OneOwner'
    <2> SUFFICES ASSUME NEW x \in Obj
                 PROVE  /\ x \in free => Holders(x)' = {} /\ \A u \in Thread : ~Carries(u, x)'
                        /\ \A u, w \in Thread : Carries(u, x)' /\ Carries(w, x)' => u = w
                        /\ \A u \in Thread : Carries(u, x)' => Holders(x)' = {}
                        /\ Holders(x)' # {} => refs'[x] = Cardinality(Holders(x)')
      BY <1>u DEF OneOwner
    <2>1. CASE x = o
      <3>1. refs'[o] = Cardinality(Holders(o)')
        BY <1>0, <1>r, <1>5 DEF TypeOK
      <3>2. refs[o] = 1 => Holders(o)' = {}
        <4>1. ASSUME refs[o] = 1 PROVE Holders(o)' = {}
          <5>1. IsFiniteSet(Holders(o)') /\ Cardinality(Holders(o)') = 0
            BY <1>r, <1>4, <1>5, <4>1, FiniteSets, FS_RemoveElement
          <5>2. QED
            BY <5>1, FS_EmptySet
        <4>2. QED
          BY <4>1
      <3>3. \A u \in Thread : Carries(u, o)' => u = t /\ Holders(o)' = {}
        BY <1>6, <1>7, <3>2
      <3>4. QED
        BY <1>7, <2>1, <3>1, <3>3
    <2>2. CASE x # o
      <3>1. Holders(x)' = Holders(x) /\ refs'[x] = refs[x]
        BY <1>0, <1>4, <2>2 DEF TypeOK
      <3>2. QED
        BY <1>6, <2>2, <3>1 DEF IInv, OneOwner
    <2>3. QED
      BY <2>1, <2>2
  <1>12. QED
    BY <1>1, <1>2, <1>8, <1>9, <1>10, <1>11 DEF IInv

-----------------------------------------------------------------------------
\* The push of deallocate_object.
LEMMA PushStep ==
    ASSUME IInv, NEW t \in Thread, Push(t) PROVE IInv'
  <1>0. TypeOK /\ pc[t] = "push" /\ pc' = [pc EXCEPT ![t] = "give"]
    BY DEF IInv, Push, Goto
  <1>o. PICK s \in Slab, i \in 1..Max : obj[t] = <<s, i>>
    BY <1>0 DEF IInv, LocalsInv, Obj
  <1> DEFINE o == <<s, i>>
  <1>f. o \in Obj /\ free' = free \cup {o}
    BY <1>o DEF Push, Obj
  <1>u. UNCHANGED <<list, count, refs, hold, slab, obj>>
    BY DEF Push, cacheVars
  <1>1. TypeOK'
    BY <1>0, <1>f DEF TypeOK, Push, cacheVars
  <1>2. NoPanic' /\ LocalsInv'
    BY <1>0, <1>u DEF IInv, NoPanic, LocalsInv, TypeOK
  <1>3. /\ Claims(s)' = Claims(s) \cup {t}
        /\ t \notin Claims(s)
        /\ \A x \in Slab \ {s} : Claims(x)' = Claims(x)
    BY <1>0, <1>o, <1>u DEF Claims, TypeOK
  <1>4. /\ \A x \in Obj : Holders(x)' = Holders(x)
        /\ \A x \in Obj : ~Carries(t, x)'
        /\ \A u \in Thread \ {t}, x \in Obj : Carries(u, x)' <=> Carries(u, x)
        /\ Carries(t, o)
    BY <1>0, <1>o, <1>u DEF Holders, Carries, TypeOK
  <1>5. o \notin free /\ Holders(o) = {} /\ \A u \in Thread \ {t} : ~Carries(u, o)
    BY <1>f, <1>4 DEF IInv, OneOwner
  <1>6. /\ Out(s)' = Out(s) \ {i}
        /\ i \in Out(s)
        /\ \A x \in Slab \ {s} : Out(x)' = Out(x)
    BY <1>f, <1>5 DEF Out
  <1>7. list[s] # "none"
    BY <1>4 DEF IInv, NewInv
  <1>8. NewInv'
    <2>1. ASSUME NEW x \in Slab, list[x] = "none"
          PROVE  x # s /\ Claims(x)' = {}
      BY <1>3, <1>7, <2>1 DEF IInv, NewInv
    <2>2. ASSUME NEW x \in Slab, list[x] = "none", NEW j \in 1..Max
          PROVE  /\ <<x, j>> \notin free'
                 /\ Holders(<<x, j>>)' = {}
                 /\ \A u \in Thread : ~Carries(u, <<x, j>>)'
      <3>1. <<x, j>> \in Obj /\ <<x, j>> # o
        BY <2>1, <2>2 DEF Obj
      <3>2. QED
        BY <1>f, <1>4, <2>2, <3>1 DEF IInv, NewInv
    <2>3. QED
      BY <1>u, <2>1, <2>2 DEF NewInv
  <1>9. CountInv'
    <2> SUFFICES ASSUME NEW x \in Slab, list[x] # "none"
                 PROVE  count[x] = Cardinality(Out(x)') + Cardinality(Claims(x)')
      BY <1>u DEF CountInv
    <2>1. CASE x # s
      BY <1>3, <1>6, <2>1 DEF IInv, CountInv
    <2>2. CASE x = s
      <3>1. Cardinality(Claims(s)') = Cardinality(Claims(s)) + 1
        BY <1>3, FiniteSets, FS_AddElement, ZenonT(40)
      <3>2. Cardinality(Out(s)') = Cardinality(Out(s)) - 1
        BY <1>6, FiniteSets, FS_RemoveElement, ZenonT(40)
      <3>3. QED
        BY <1>7, <2>2, <3>1, <3>2, FiniteSets DEF IInv, CountInv
    <2>3. QED
      BY <2>1, <2>2
  <1>10. ListFitsCount'
    BY <1>u DEF IInv, ListFitsCount
  <1>11. OneOwner'
    <2> SUFFICES ASSUME NEW x \in Obj
                 PROVE  /\ x \in free' => Holders(x) = {} /\ \A u \in Thread : ~Carries(u, x)'
                        /\ \A u, w \in Thread : Carries(u, x)' /\ Carries(w, x)' => u = w
                        /\ \A u \in Thread : Carries(u, x)' => Holders(x) = {}
                        /\ Holders(x) # {} => refs[x] = Cardinality(Holders(x))
      BY <1>u, <1>4 DEF OneOwner
    <2>1. CASE x = o
      BY <1>4, <1>5, <2>1
    <2>2. CASE x # o
      BY <1>f, <1>4, <2>2 DEF IInv, OneOwner
    <2>3. QED
      BY <2>1, <2>2
  <1>12. QED
    BY <1>1, <1>2, <1>8, <1>9, <1>10, <1>11 DEF IInv

\* The rest of deallocate_object: the thread gives up the claim that kept the
\* count above the number of objects that are out.
LEMMA GiveSlabStep ==
    ASSUME IInv, NEW t \in Thread, GiveSlab(t) PROVE IInv'
  <1>s. PICK s \in Slab : s = obj[t][1]
    BY DEF IInv, LocalsInv, GiveSlab, Goto, Obj
  <1>0. /\ TypeOK /\ pc[t] = "give" /\ pc' = [pc EXCEPT ![t] = "idle"]
        /\ count' = [count EXCEPT ![s] = @ - 1]
        /\ list' = [list EXCEPT ![s] = IF count[s] = Max THEN "partial"
                                       ELSE IF count[s] = 1 THEN "empty"
                                       ELSE @]
        /\ obj' = [obj EXCEPT ![t] = NULL]
    BY <1>s DEF IInv, GiveSlab, Goto
  <1>u. UNCHANGED <<free, refs, hold, slab>>
    BY DEF GiveSlab
  <1>3. /\ Claims(s)' = Claims(s) \ {t}
        /\ t \in Claims(s)
        /\ \A x \in Slab \ {s} : Claims(x)' = Claims(x)
    BY <1>0, <1>s, <1>u DEF Claims, TypeOK
  <1>4. /\ \A o \in Obj : Holders(o)' = Holders(o)
        /\ \A u \in Thread, o \in Obj : Carries(u, o)' <=> Carries(u, o)
        /\ \A x \in Slab : Out(x)' = Out(x)
    BY <1>0, <1>u DEF Holders, Carries, Out, TypeOK
  <1>5. list[s] # "none"
    BY <1>3 DEF IInv, NewInv
  <1>6. Cardinality(Claims(s)') = Cardinality(Claims(s)) - 1
    BY <1>3, FiniteSets, FS_RemoveElement, ZenonT(40)
  <1>7. count[s] \in 1..Max
    <2>1. Cardinality(Claims(s)) # 0
      BY <1>3, FiniteSets, FS_EmptySet
    <2>2. count[s] = Cardinality(Out(s)) + Cardinality(Claims(s)) /\ count[s] \in 0..Max
      BY <1>0, <1>5 DEF IInv, CountInv, TypeOK
    <2>3. QED
      BY <2>1, <2>2, FiniteSets, MaxAssumption
  <1>8. /\ count'[s] = count[s] - 1
        /\ list'[s] # "none"
        /\ \A x \in Slab \ {s} : list'[x] = list[x] /\ count'[x] = count[x]
    BY <1>0, <1>5 DEF TypeOK
  <1>1. TypeOK'
    <2>1. count' \in [Slab -> 0..Max]
      BY <1>0, <1>7, MaxAssumption DEF TypeOK
    <2>2. list' \in [Slab -> {"none", "empty", "partial", "full"}]
      BY <1>0 DEF TypeOK
    <2>3. initialized' \in BOOLEAN /\ total_slabs' \in Nat /\ total_inuse' \in Int
      BY <1>0 DEF TypeOK, GiveSlab
    <2>4. QED
      BY <1>0, <1>u, <2>1, <2>2, <2>3 DEF TypeOK, GiveSlab
  <1>2. NoPanic' /\ LocalsInv'
    BY <1>0, <1>u DEF IInv, NoPanic, LocalsInv, TypeOK
  <1>9. NewInv'
    <2>1. ASSUME NEW x \in Slab, list'[x] = "none"
          PROVE  x # s /\ list[x] = "none" /\ Claims(x)' = {}
      BY <1>3, <1>8, <2>1 DEF IInv, NewInv
    <2>2. ASSUME NEW x \in Slab, list'[x] = "none", NEW i \in 1..Max
          PROVE  /\ <<x, i>> \notin free'
                 /\ Holders(<<x, i>>)' = {}
                 /\ \A u \in Thread : ~Carries(u, <<x, i>>)'
      BY <1>u, <1>4, <2>1, <2>2 DEF IInv, NewInv, Obj
    <2>3. QED
      BY <2>1, <2>2 DEF NewInv
  <1>10. CountInv'
    <2> SUFFICES ASSUME NEW x \in Slab, list'[x] # "none"
                 PROVE  count'[x] = Cardinality(Out(x)') + Cardinality(Claims(x)')
      BY DEF CountInv
    <2>1. CASE x # s
      BY <1>3, <1>4, <1>8, <2>1 DEF IInv, CountInv
    <2>2. CASE x = s
      BY <1>4, <1>5, <1>6, <1>8, <2>2, FiniteSets DEF IInv, CountInv
    <2>3. QED
      BY <2>1, <2>2
  <1>11. ListFitsCount'
    <2> SUFFICES ASSUME NEW x \in Slab
                 PROVE  /\ list'[x] \in {"none", "empty"} <=> count'[x] = 0
                        /\ list'[x] = "full" <=> count'[x] = Max
      BY DEF ListFitsCount
    <2>1. CASE x # s
      BY <1>8, <2>1 DEF IInv, ListFitsCount
    <2>2. CASE x = s
      <3>1. list[s] \notin {"none", "empty"} /\ (list[s] = "full" <=> count[s] = Max)
        BY <1>7 DEF IInv, ListFitsCount
      <3>2. QED
        BY <1>0, <1>7, <1>8, <2>2, <3>1, MaxAssumption DEF TypeOK
    <2>3. QED
      BY <2>1, <2>2
  <1>12. OneOwner'
    BY <1>u, <1>4 DEF IInv, OneOwner
  <1>13. QED
    BY <1>1, <1>2, <1>9, <1>10, <1>11, <1>12 DEF IInv

-----------------------------------------------------------------------------
\* IInv is an inductive invariant of the allocator.
THEOREM Inductive == Spec => []IInv
  <1>1. ASSUME IInv, [Next]_vars PROVE IInv'
    <2>1. CASE UNCHANGED vars
      <3>1. TypeOK' /\ NoPanic' /\ LocalsInv' /\ ListFitsCount'
        BY <1>1, <2>1 DEF vars, cacheVars, IInv, TypeOK, NoPanic, LocalsInv, ListFitsCount
      <3>2. NewInv' /\ CountInv'
        BY <1>1, <2>1 DEF vars, cacheVars, IInv, NewInv, CountInv, Claims, Out, Holders, Carries
      <3>3. OneOwner'
        <4>1. /\ \A o \in Obj : Holders(o)' = Holders(o)
              /\ \A u \in Thread, o \in Obj : Carries(u, o)' <=> Carries(u, o)
              /\ free' = free /\ refs' = refs
          BY <2>1 DEF vars, Holders, Carries
        <4>2. QED
          BY <1>1, <4>1 DEF IInv, OneOwner
      <3>4. QED
        BY <3>1, <3>2, <3>3 DEF IInv
    <2>2. CASE Next
      BY <1>1, <2>2, AllocateStep, TakeSlabStep, PopStep, ReturnStep, GetRefStep, PutRefStep,
         PushStep, GiveSlabStep DEF Next
    <2>3. QED
      BY <1>1, <2>1, <2>2
  <1>2. QED
    BY <1>1, InitInv, PTL DEF Spec

\* allocate_from_cache always finds an object on the stack of the slab it
\* chose, and no thread sees a reference count that has dropped to zero.
THEOREM AllocationFinds == Spec => []NoPanic
  <1>1. IInv => NoPanic
    BY DEF IInv
  <1>2. QED
    BY <1>1, Inductive, PTL

\* No object is handed out while somebody still has it: an object is on its
\* stack, or carried by one thread, or referenced as often as its count says.
THEOREM Exclusive == Spec => []OneOwner
  <1>1. IInv => OneOwner
    BY DEF IInv
  <1>2. QED
    BY <1>1, Inductive, PTL

\* Slabs are always on the list that fits their count.
THEOREM ListsFit == Spec => []ListFitsCount
  <1>1. IInv => ListFitsCount
    BY DEF IInv
  <1>2. QED
    BY <1>1, Inductive, PTL

-----------------------------------------------------------------------------
(***************************************************************************)
(* The statistics.                                                         *)
(***************************************************************************)

\* Threads that are about to push an object are finitely many.
LEMMA PushingFinite == IsFiniteSet(Pushing) /\ Cardinality(Pushing) \in Nat
  <1>1. Pushing \in SUBSET Thread
    BY DEF Pushing
  <1>2. QED
    BY <1>1, ThreadAssumption, FS_Subset, FS_CardinalityType

\* Nothing is allocated, and no slab is in use, in the initial state.
LEMMA InitStats == Init => StatsInv
  <1> SUFFICES ASSUME Init PROVE StatsInv
    OBVIOUS
  <1>1. \A o \in Obj : Holders(o) = {} /\ refs[o] = 0
    BY DEF Init, Holders
  <1>2. Live = {} /\ Used = {} /\ Pushing = {}
    BY <1>1 DEF Init, Live, Used, Pushing
  <1>3. RefsCounted
    BY <1>1, FS_EmptySet DEF RefsCounted
  <1>4. Placed /\ Fresh
    <2>1. \A o \in Obj : o[1] \in Slab
      BY DEF Obj
    <2>2. QED
      BY <2>1 DEF Init, Placed, Fresh
  <1>5. AllocCounted /\ UsedCounted
    BY <1>2, FS_EmptySet DEF Init, AllocCounted, UsedCounted
  <1>6. QED
    BY <1>3, <1>4, <1>5 DEF StatsInv

\* kobj_allocate may reset the statistics: only when there is nothing to count.
LEMMA AllocateStats ==
    ASSUME IInv, StatsInv, NEW t \in Thread, Allocate(t) PROVE StatsInv'
  <1>0. /\ TypeOK /\ pc[t] = "idle" /\ pc' = [pc EXCEPT ![t] = "take"]
        /\ UNCHANGED <<list, count, free, refs, hold, obj>>
    BY DEF IInv, Allocate, Goto
  <1>1. /\ \A o \in Obj : Holders(o)' = Holders(o)
        /\ \A u \in Thread, o \in Obj : Carries(u, o)' <=> Carries(u, o)
    BY <1>0 DEF Holders, Carries, TypeOK
  <1>2. Live' = Live /\ Used' = Used /\ Pushing' = Pushing
    BY <1>0 DEF Live, Used, Pushing, TypeOK
  <1>3. RefsCounted' /\ Placed'
    BY <1>0, <1>1 DEF StatsInv, RefsCounted, Placed
  <1>4. ~initialized => Live = {} /\ Used = {} /\ Pushing = {}
    <2> SUFFICES ASSUME ~initialized PROVE Live = {} /\ Used = {} /\ Pushing = {}
      OBVIOUS
    <2>1. \A s \in Slab : list[s] = "none" /\ count[s] = 0
      BY DEF StatsInv, Fresh, IInv, ListFitsCount
    <2>2. ASSUME NEW o \in Obj PROVE refs[o] = 0
      <3>1. PICK s \in Slab, i \in 1..Max : o = <<s, i>>
        BY DEF Obj
      <3>2. Holders(o) = {}
        BY <2>1, <3>1 DEF IInv, NewInv
      <3>3. QED
        BY <3>2, FS_EmptySet DEF StatsInv, RefsCounted
    <2>3. Pushing = {}
      BY DEF StatsInv, Fresh, Pushing
    <2>4. QED
      BY <2>1, <2>2, <2>3 DEF Live, Used
  <1>5. AllocCounted' /\ UsedCounted'
    <2>1. CASE initialized
      BY <1>2, <2>1 DEF Allocate, StatsInv, AllocCounted, UsedCounted
    <2>2. CASE ~initialized
      BY <1>2, <1>4, <2>2, FS_EmptySet DEF Allocate, AllocCounted, UsedCounted
    <2>3. QED
      BY <2>1, <2>2
  <1>6. Fresh'
    BY DEF Allocate, Fresh
  <1>7. QED
    BY <1>3, <1>5, <1>6 DEF StatsInv

\* total_inuse counts the slab that goes from no object to one.
LEMMA TakeSlabStats ==
    ASSUME IInv, StatsInv, NEW t \in Thread, TakeSlab(t) PROVE StatsInv'
  <1>0. /\ TypeOK /\ pc[t] = "take" /\ pc' = [pc EXCEPT ![t] = "pop"]
        /\ UNCHANGED <<initialized, allocated_objects, refs, hold, obj>>
    BY DEF IInv, TakeSlab, Goto
  <1>s. PICK s \in Slab :
          /\ create_new_slab(s)
          /\ count' = [count EXCEPT ![s] = @ + 1]
          /\ list' = [list EXCEPT ![s] = IF count[s] = Max - 1 THEN "full"
                                         ELSE IF count[s] = 0 THEN "partial"
                                         ELSE @]
          /\ total_inuse' = IF count[s] # Max - 1 /\ count[s] = 0
                            THEN total_inuse + 1 ELSE total_inuse
    BY ZenonT(40) DEF TakeSlab
  <1>1. /\ \A o \in Obj : Holders(o)' = Holders(o)
        /\ \A u \in Thread, o \in Obj : Carries(u, o)' <=> Carries(u, o)
    BY <1>0 DEF Holders, Carries, TypeOK
  <1>2. RefsCounted'
    BY <1>0, <1>1 DEF StatsInv, RefsCounted
  <1>3. Placed'
    <2> SUFFICES ASSUME NEW o \in Obj, list'[o[1]] # "none"
                 PROVE  o \in free' \/ Holders(o)' # {} \/ \E u \in Thread : Carries(u, o)'
      BY DEF Placed
    <2>1. free \subseteq free' /\ o[1] \in Slab
      BY <1>s DEF create_new_slab, Obj
    <2>2. CASE list[o[1]] # "none"
      BY <1>1, <2>1, <2>2 DEF StatsInv, Placed
    <2>3. CASE list[o[1]] = "none"
      <3>1. o[1] = s
        BY <1>0, <1>s, <2>1, <2>3 DEF TypeOK
      <3>2. o \in {s} \X (1..Max)
        BY <3>1 DEF Obj
      <3>3. QED
        BY <1>s, <2>3, <3>1, <3>2 DEF create_new_slab
    <2>4. QED
      BY <2>2, <2>3
  <1>4. AllocCounted'
    <2>1. Live' = Live /\ Pushing' = Pushing
      BY <1>0 DEF Live, Pushing, TypeOK
    <2>2. QED
      BY <1>0, <2>1 DEF StatsInv, AllocCounted
  <1>5. UsedCounted'
    <2>1. count[s] \in 0..Max /\ Max - 1 # 0 /\ count'[s] = count[s] + 1
          /\ \A x \in Slab \ {s} : count'[x] = count[x]
      BY <1>0, <1>s, MaxAssumption DEF TypeOK
    <2>2. Used' = Used \cup {s} /\ (s \in Used <=> count[s] # 0)
      BY <2>1, MaxAssumption DEF Used
    <2>3. /\ IsFiniteSet(Used')
          /\ Cardinality(Used') = IF s \in Used THEN Cardinality(Used) ELSE Cardinality(Used) + 1
      BY <2>2, FS_AddElement DEF StatsInv, UsedCounted
    <2>4. total_inuse = Cardinality(Used)
      BY DEF StatsInv, UsedCounted
    <2>5. total_inuse' = IF s \in Used THEN total_inuse ELSE total_inuse + 1
      BY <1>s, <2>1, <2>2, ZenonT(40)
    <2>6. QED
      BY <2>3, <2>4, <2>5 DEF UsedCounted
  <1>6. Fresh'
    BY <1>0 DEF StatsInv, Fresh
  <1>7. QED
    BY <1>2, <1>3, <1>4, <1>5, <1>6 DEF StatsInv

\* stack_pop takes an object that the thread then carries.
LEMMA PopStats ==
    ASSUME IInv, StatsInv, NEW t \in Thread, Pop(t) PROVE StatsInv'
  <1>0. /\ TypeOK /\ pc[t] = "pop" /\ pc' = [pc EXCEPT ![t] = "return"]
        /\ UNCHANGED <<cacheVars, allocated_objects, refs, hold>>
    BY DEF IInv, Pop, Goto
  <1>o. PICK o \in free : obj' = [obj EXCEPT ![t] = o] /\ free' = free \ {o}
    BY <1>0, StackNotEmpty DEF Pop
  <1>1. /\ \A x \in Obj : Holders(x)' = Holders(x)
        /\ \A u \in Thread, x \in Obj : Carries(u, x) => Carries(u, x)'
        /\ Carries(t, o)'
    BY <1>0, <1>o DEF Holders, Carries, TypeOK
  <1>2. RefsCounted' /\ Fresh'
    BY <1>0, <1>1 DEF StatsInv, RefsCounted, Fresh, cacheVars
  <1>3. Placed'
    BY <1>0, <1>1, <1>o DEF StatsInv, Placed, cacheVars
  <1>4. Live' = Live /\ Used' = Used /\ Pushing' = Pushing
    BY <1>0 DEF Live, Used, Pushing, TypeOK, cacheVars
  <1>5. AllocCounted' /\ UsedCounted'
    BY <1>0, <1>4 DEF StatsInv, AllocCounted, UsedCounted, cacheVars
  <1>6. QED
    BY <1>2, <1>3, <1>5 DEF StatsInv

\* The new object, which nobody referenced, is one more that is allocated.
LEMMA ReturnStats ==
    ASSUME IInv, StatsInv, NEW t \in Thread, Return(t) PROVE StatsInv'
  <1>o. PICK o \in Obj : o = obj[t]
    BY DEF IInv, LocalsInv, Return, Goto
  <1>0. /\ TypeOK /\ pc[t] = "return" /\ pc' = [pc EXCEPT ![t] = "idle"]
        /\ refs' = [refs EXCEPT ![o] = 1]
        /\ hold' = hold \cup {<<t, o>>}
        /\ obj' = [obj EXCEPT ![t] = NULL]
    BY <1>o, NullAssumption, ZenonT(40) DEF IInv, Return, Goto, LocalsInv, Obj
  <1>u. UNCHANGED <<initialized, list, count, total_inuse, free>>
        /\ allocated_objects' = allocated_objects + 1
    BY DEF Return, cacheVars
  <1>1. Carries(t, o) /\ Holders(o) = {}
    BY <1>0, <1>o DEF Carries, IInv, OneOwner
  <1>2. /\ Holders(o)' = {t}
        /\ \A x \in Obj \ {o} : Holders(x)' = Holders(x)
    BY <1>0, <1>1 DEF Holders
  <1>3. refs[o] = 0 /\ refs'[o] = 1 /\ \A x \in Obj \ {o} : refs'[x] = refs[x]
    BY <1>0, <1>1, FS_EmptySet, ZenonT(40) DEF TypeOK, StatsInv, RefsCounted
  <1>4. RefsCounted'
    BY <1>2, <1>3, FS_Singleton, ZenonT(40) DEF StatsInv, RefsCounted
  <1>5. \A u \in Thread, x \in Obj \ {o} : Carries(u, x) => Carries(u, x)'
    BY <1>0, <1>o DEF Carries, TypeOK
  <1>6. Placed'
    BY <1>u, <1>2, <1>5 DEF StatsInv, Placed
  <1>7. AllocCounted'
    <2>1. Live' = Live \cup {o} /\ o \notin Live
      BY <1>3 DEF Live
    <2>2. Pushing' = Pushing
      BY <1>0 DEF Pushing, TypeOK
    <2>3. IsFiniteSet(Live') /\ Cardinality(Live') = Cardinality(Live) + 1
      BY <2>1, FS_AddElement DEF StatsInv, AllocCounted
    <2>4. Cardinality(Live) \in Nat /\ Cardinality(Pushing) \in Nat
      BY PushingFinite, FS_CardinalityType DEF StatsInv, AllocCounted
    <2>5. allocated_objects = Cardinality(Live) + Cardinality(Pushing)
      BY DEF StatsInv, AllocCounted
    <2>6. QED
      BY <1>u, <2>2, <2>3, <2>4, <2>5 DEF AllocCounted
  <1>8. UsedCounted' /\ Fresh'
    <2>1. Used' = Used
      BY <1>u DEF Used
    <2>2. QED
      BY <1>0, <1>u, <2>1 DEF StatsInv, UsedCounted, Fresh
  <1>9. QED
    BY <1>4, <1>6, <1>7, <1>8 DEF StatsInv

\* kobj_getref does not change what is allocated.
LEMMA GetRefStats ==
    ASSUME IInv, StatsInv, NEW t \in Thread, NEW v \in Thread, NEW o \in Obj, GetRef(t, v, o)
    PROVE  StatsInv'
  <1>1. t \in Holders(o) /\ v \notin Holders(o)
    BY DEF GetRef, Holders
  <1>2. refs[o] = Cardinality(Holders(o)) /\ refs[o] # 0
    BY <1>1, FiniteSets, FS_EmptySet DEF StatsInv, RefsCounted
  <1>0. /\ TypeOK
        /\ refs' = [refs EXCEPT ![o] = @ + 1]
        /\ hold' = hold \cup {<<v, o>>}
        /\ UNCHANGED <<pc, cacheVars, free, allocated_objects, obj>>
    BY <1>2 DEF IInv, GetRef
  <1>3. /\ Holders(o)' = Holders(o) \cup {v}
        /\ \A x \in Obj \ {o} : Holders(x)' = Holders(x)
    BY <1>0 DEF Holders
  <1>4. /\ refs'[o] = refs[o] + 1 /\ refs[o] \in Nat
        /\ \A x \in Obj \ {o} : refs'[x] = refs[x]
    BY <1>0 DEF TypeOK
  <1>5. Cardinality(Holders(o)') = Cardinality(Holders(o)) + 1
    BY <1>1, <1>3, FiniteSets, FS_AddElement, ZenonT(40)
  <1>6. RefsCounted'
    BY <1>2, <1>3, <1>4, <1>5, ZenonT(40) DEF StatsInv, RefsCounted
  <1>7. \A u \in Thread, x \in Obj : Carries(u, x)' <=> Carries(u, x)
    BY <1>0 DEF Carries
  <1>8. Placed'
    BY <1>0, <1>3, <1>7 DEF StatsInv, Placed, cacheVars
  <1>9. Live' = Live /\ Used' = Used /\ Pushing' = Pushing
    BY <1>0, <1>2, <1>4 DEF Live, Used, Pushing, cacheVars
  <1>10. AllocCounted' /\ UsedCounted' /\ Fresh'
    BY <1>0, <1>9 DEF StatsInv, AllocCounted, UsedCounted, Fresh, cacheVars
  <1>11. QED
    BY <1>6, <1>8, <1>10 DEF StatsInv

\* The object that loses its last reference counts as allocated until its
\* thread pushes it.
LEMMA PutRefStats ==
    ASSUME IInv, StatsInv, NEW t \in Thread, NEW o \in Obj, PutRef(t, o)
    PROVE  StatsInv'
  <1>1. t \in Holders(o) /\ pc[t] = "idle"
    BY DEF PutRef, Goto, Holders
  <1>2. refs[o] = Cardinality(Holders(o)) /\ refs[o] \in Nat /\ refs[o] # 0
    BY <1>1, FiniteSets, FS_EmptySet DEF StatsInv, RefsCounted
  <1>e. ~(refs[o] <= 0)
    BY <1>2
  <1>0. /\ TypeOK
        /\ pc' = [pc EXCEPT ![t] = IF refs[o] = 1 THEN "push" ELSE "idle"]
        /\ refs' = [refs EXCEPT ![o] = @ - 1]
        /\ hold' = hold \ {<<t, o>>}
        /\ UNCHANGED <<cacheVars, free, allocated_objects>>
    BY <1>e, ZenonT(40) DEF IInv, PutRef, Goto
  <1>c. refs[o] = 1 => obj' = [obj EXCEPT ![t] = o]
    BY <1>0, <1>2 DEF PutRef, TypeOK
  <1>d. obj' \in [Thread -> Obj \cup {NULL}] /\ \A u \in Thread \ {t} : obj'[u] = obj[u]
    BY <1>0 DEF PutRef, TypeOK
  <1>3. /\ Holders(o)' = Holders(o) \ {t}
        /\ \A x \in Obj \ {o} : Holders(x)' = Holders(x)
    BY <1>0 DEF Holders
  <1>4. refs'[o] = refs[o] - 1 /\ \A x \in Obj \ {o} : refs'[x] = refs[x]
    BY <1>0 DEF TypeOK
  <1>5. Cardinality(Holders(o)') = Cardinality(Holders(o)) - 1
    BY <1>1, <1>3, FiniteSets, FS_RemoveElement
  <1>6. RefsCounted'
    BY <1>2, <1>3, <1>4, <1>5 DEF StatsInv, RefsCounted
  <1>7. /\ \A u \in Thread, x \in Obj : Carries(u, x) => Carries(u, x)'
        /\ refs[o] = 1 => Carries(t, o)'
    BY <1>0, <1>1, <1>c, <1>d DEF Carries, TypeOK
  <1>8. Placed'
    <2>1. refs[o] # 1 => Holders(o)' # {}
      BY <1>2, <1>5, FS_EmptySet
    <2>2. QED
      BY <1>0, <1>3, <1>7, <2>1 DEF StatsInv, Placed, cacheVars
  <1>9. AllocCounted'
    <2>1. Cardinality(Live) \in Nat /\ Cardinality(Pushing) \in Nat /\ IsFiniteSet(Live)
      BY PushingFinite, FS_CardinalityType DEF StatsInv, AllocCounted
    <2>2. allocated_objects' = Cardinality(Live) + Cardinality(Pushing)
      BY <1>0 DEF StatsInv, AllocCounted
    <2>3. CASE refs[o] = 1
      <3>1. Live' = Live \ {o} /\ o \in Live
        BY <1>2, <1>4, <2>3 DEF Live
      <3>2. Pushing' = Pushing \cup {t} /\ t \notin Pushing
        BY <1>0, <1>1, <2>3 DEF Pushing, TypeOK
      <3>3. IsFiniteSet(Live') /\ Cardinality(Live') = Cardinality(Live) - 1
        BY <2>1, <3>1, FS_RemoveElement
      <3>4. Cardinality(Pushing') = Cardinality(Pushing) + 1
        BY <3>2, PushingFinite, FS_AddElement
      <3>5. QED
        BY <2>1, <2>2, <3>3, <3>4 DEF AllocCounted
    <2>4. CASE refs[o] # 1
      <3>1. Live' = Live
        BY <1>2, <1>4, <2>4 DEF Live
      <3>2. Pushing' = Pushing
        BY <1>0, <1>1, <2>4 DEF Pushing, TypeOK
      <3>3. QED
        BY <2>1, <2>2, <3>1, <3>2 DEF AllocCounted
    <2>5. QED
      BY <2>3, <2>4
  <1>10. UsedCounted' /\ Fresh'
    <2>1. Used' = Used
      BY <1>0 DEF Used, cacheVars
    <2>2. initialized
      <3>1. PICK s \in Slab, i \in 1..Max : o = <<s, i>>
        BY DEF Obj
      <3>2. list[s] # "none"
        BY <1>1, <3>1 DEF IInv, NewInv
      <3>3. QED
        BY <3>2 DEF StatsInv, Fresh
    <2>3. QED
      BY <1>0, <2>1, <2>2 DEF StatsInv, UsedCounted, Fresh, cacheVars
  <1>11. QED
    BY <1>6, <1>8, <1>9, <1>10 DEF StatsInv

\* The pushed object is no longer allocated, and is on the stack.
LEMMA PushStats ==
    ASSUME IInv, StatsInv, NEW t \in Thread, Push(t) PROVE StatsInv'
  <1>0. /\ TypeOK /\ pc[t] = "push" /\ pc' = [pc EXCEPT ![t] = "give"]
        /\ free' = free \cup {obj[t]}
        /\ allocated_objects' = allocated_objects - 1
        /\ UNCHANGED <<cacheVars, refs, hold, obj>>
    BY DEF IInv, Push, Goto
  <1>1. /\ \A x \in Obj : Holders(x)' = Holders(x)
        /\ \A u \in Thread, x \in Obj : Carries(u, x) => Carries(u, x)' \/ x \in free'
    BY <1>0 DEF Holders, Carries, TypeOK
  <1>2. RefsCounted' /\ Placed'
    BY <1>0, <1>1, ZenonT(40) DEF StatsInv, RefsCounted, Placed, cacheVars
  <1>3. Live' = Live /\ Used' = Used
    BY <1>0 DEF Live, Used, cacheVars
  <1>4. Pushing' = Pushing \ {t} /\ t \in Pushing
    BY <1>0 DEF Pushing, TypeOK
  <1>5. Cardinality(Pushing') = Cardinality(Pushing) - 1
    BY <1>4, PushingFinite, FS_RemoveElement
  <1>6. AllocCounted'
    <2>1. Cardinality(Live) \in Nat /\ Cardinality(Pushing) \in Nat
      BY PushingFinite, FS_CardinalityType DEF StatsInv, AllocCounted
    <2>2. QED
      BY <1>0, <1>3, <1>5, <2>1 DEF StatsInv, AllocCounted
  <1>7. UsedCounted' /\ Fresh'
    BY <1>0, <1>3 DEF StatsInv, UsedCounted, Fresh, cacheVars
  <1>8. QED
    BY <1>2, <1>6, <1>7 DEF StatsInv

\* total_inuse loses the slab that goes from one object to none.
LEMMA GiveSlabStats ==
    ASSUME IInv, StatsInv, NEW t \in Thread, GiveSlab(t) PROVE StatsInv'
  <1>s. PICK s \in Slab : s = obj[t][1]
    BY DEF IInv, LocalsInv, GiveSlab, Goto, Obj
  <1>0. /\ TypeOK /\ pc[t] = "give" /\ pc' = [pc EXCEPT ![t] = "idle"]
        /\ count' = [count EXCEPT ![s] = @ - 1]
        /\ list' = [list EXCEPT ![s] = IF count[s] = Max THEN "partial"
                                       ELSE IF count[s] = 1 THEN "empty"
                                       ELSE @]
        /\ total_inuse' = IF count[s] # Max /\ count[s] = 1 THEN total_inuse - 1 ELSE total_inuse
        /\ obj' = [obj EXCEPT ![t] = NULL]
    BY <1>s DEF IInv, GiveSlab, Goto
  <1>u. UNCHANGED <<initialized, free, allocated_objects, refs, hold>>
    BY DEF GiveSlab
  <1>1. t \in Claims(s)
    BY <1>0, <1>s DEF Claims
  <1>2. count[s] \in 1..Max
    <2>1. Cardinality(Claims(s)) # 0
      BY <1>1, FiniteSets, FS_EmptySet
    <2>2. list[s] # "none"
      BY <1>1 DEF IInv, NewInv
    <2>3. count[s] = Cardinality(Out(s)) + Cardinality(Claims(s)) /\ count[s] \in 0..Max
      BY <1>0, <2>2 DEF IInv, CountInv, TypeOK
    <2>4. QED
      BY <2>1, <2>3, FiniteSets, MaxAssumption
  <1>3. /\ \A x \in Obj : Holders(x)' = Holders(x)
        /\ \A u \in Thread, x \in Obj : Carries(u, x)' <=> Carries(u, x)
    BY <1>0, <1>u DEF Holders, Carries, TypeOK
  <1>4. RefsCounted'
    BY <1>u, <1>3 DEF StatsInv, RefsCounted
  <1>5. Placed'
    <2>1. \A x \in Slab : list'[x] # "none" => list[x] # "none"
      <3>1. list[s] # "none"
        BY <1>1 DEF IInv, NewInv
      <3>2. QED
        BY <1>0, <3>1 DEF TypeOK
    <2>2. \A o \in Obj : o[1] \in Slab
      BY DEF Obj
    <2>3. QED
      BY <1>u, <1>3, <2>1, <2>2 DEF StatsInv, Placed
  <1>6. AllocCounted'
    <2>1. Live' = Live /\ Pushing' = Pushing
      BY <1>0, <1>u DEF Live, Pushing, TypeOK
    <2>2. QED
      BY <1>u, <2>1 DEF StatsInv, AllocCounted
  <1>7. UsedCounted'
    <2>1. count'[s] = count[s] - 1 /\ \A x \in Slab \ {s} : count'[x] = count[x]
      BY <1>0 DEF TypeOK
    <2>2. s \in Used /\ Used' = IF count[s] = 1 THEN Used \ {s} ELSE Used
      BY <1>2, <2>1, MaxAssumption DEF Used
    <2>3. /\ IsFiniteSet(Used')
          /\ Cardinality(Used') = IF count[s] = 1 THEN Cardinality(Used) - 1 ELSE Cardinality(Used)
      BY <2>2, FS_RemoveElement DEF StatsInv, UsedCounted
    <2>4. total_inuse = Cardinality(Used)
      BY DEF StatsInv, UsedCounted
    <2>5. total_inuse' = IF count[s] = 1 THEN total_inuse - 1 ELSE total_inuse
      BY <1>0, MaxAssumption
    <2>6. QED
      BY <2>3, <2>4, <2>5 DEF UsedCounted
  <1>8. Fresh'
    BY <1>0, <1>u DEF StatsInv, Fresh
  <1>9. QED
    BY <1>4, <1>5, <1>6, <1>7, <1>8 DEF StatsInv

\* The statistics of the allocator are right at every moment, up to the
\* objects that a thread has taken the last reference of and not pushed yet.
THEOREM Statistics == Spec => [](IInv /\ StatsInv)
  <1>1. Init => IInv /\ StatsInv
    BY InitStats, InitInv
  <1>2. IInv /\ StatsInv /\ [Next]_vars => StatsInv'
    <2> SUFFICES ASSUME IInv, StatsInv, [Next]_vars PROVE StatsInv'
      OBVIOUS
    <2>1. CASE UNCHANGED vars
      BY <2>1 DEF vars, cacheVars, StatsInv, RefsCounted, Placed, AllocCounted, UsedCounted, Fresh,
                  Holders, Carries, Live, Used, Pushing
    <2>2. ASSUME NEW t \in Thread,
                 \/ Allocate(t) \/ TakeSlab(t) \/ Pop(t) \/ Return(t) \/ Push(t) \/ GiveSlab(t)
          PROVE  StatsInv'
      BY <2>2, AllocateStats, TakeSlabStats, PopStats, ReturnStats, PushStats, GiveSlabStats
    <2>3. ASSUME NEW t \in Thread, NEW o \in Obj,
                 PutRef(t, o) \/ \E u \in Thread : GetRef(t, u, o)
          PROVE  StatsInv'
      BY <2>3, PutRefStats, GetRefStats
    <2>4. QED
      BY <2>1, <2>2, <2>3 DEF Next
  <1>3. Spec => []IInv
    BY Inductive
  <1>4. QED
    BY <1>1, <1>2, <1>3, PTL DEF Spec

\* Between calls the count of a slab is the number of its live objects.
LEMMA Quiet ==
    ASSUME IInv, StatsInv, \A t \in Thread : pc[t] = "idle", NEW s \in Slab
    PROVE  count[s] = Cardinality({o \in Live : o[1] = s})
  <1> DEFINE L == {o \in Live : o[1] = s}
  <1>1. Claims(s) = {} /\ \A t \in Thread, o \in Obj : ~Carries(t, o)
    BY DEF Claims, Carries
  <1>2. \A o \in Obj : refs[o] > 0 <=> Holders(o) # {}
    <2> SUFFICES ASSUME NEW o \in Obj PROVE refs[o] > 0 <=> Holders(o) # {}
      OBVIOUS
    <2>1. refs[o] = Cardinality(Holders(o)) /\ Cardinality(Holders(o)) \in Nat
      BY FiniteSets DEF StatsInv, RefsCounted
    <2>2. Cardinality(Holders(o)) = 0 <=> Holders(o) = {}
      BY FiniteSets, FS_EmptySet
    <2>3. QED
      BY <2>1, <2>2
  <1>3. CASE list[s] = "none"
    <2>1. L = {}
      <3> SUFFICES ASSUME NEW o \in L PROVE FALSE
        OBVIOUS
      <3>1. o \in Obj /\ refs[o] > 0 /\ o[1] = s
        BY DEF Live
      <3>2. PICK i \in 1..Max : o = <<s, i>>
        BY <3>1 DEF Obj
      <3>3. Holders(o) = {}
        BY <1>3, <3>2 DEF IInv, NewInv
      <3>4. QED
        BY <1>2, <3>1, <3>3
    <2>2. count[s] = 0
      BY <1>3 DEF IInv, ListFitsCount
    <2>3. QED
      BY <2>1, <2>2, FS_EmptySet
  <1>4. CASE list[s] # "none"
    <2>1. count[s] = Cardinality(Out(s))
      BY <1>1, <1>4, FS_EmptySet, FiniteSets DEF IInv, CountInv
    <2> DEFINE f == [i \in Out(s) |-> <<s, i>>]
    <2>2. ASSUME NEW i \in Out(s) PROVE <<s, i>> \in L
      <3>1. <<s, i>> \in Obj /\ <<s, i>> \notin free
        BY DEF Out, Obj
      <3>2. Holders(<<s, i>>) # {}
        BY <1>1, <1>4, <3>1 DEF StatsInv, Placed
      <3>3. QED
        BY <1>2, <3>1, <3>2 DEF Live
    <2>3. ASSUME NEW o \in L PROVE \E i \in Out(s) : f[i] = o
      <3>1. o \in Obj /\ refs[o] > 0 /\ o[1] = s
        BY DEF Live
      <3>2. PICK i \in 1..Max : o = <<s, i>>
        BY <3>1 DEF Obj
      <3>3. o \notin free
        BY <1>2, <3>1 DEF IInv, OneOwner
      <3>4. QED
        BY <3>2, <3>3 DEF Out
    <2>4. f \in Bijection(Out(s), L)
      <3>1. f \in [Out(s) -> L]
        BY <2>2
      <3>2. f \in Injection(Out(s), L)
        BY <3>1 DEF Injection, IsInjective
      <3>3. f \in Surjection(Out(s), L)
        BY <2>3, <3>1 DEF Surjection
      <3>4. QED
        BY <3>2, <3>3 DEF Bijection
    <2>5. QED
      BY <2>1, <2>4, FiniteSets, FS_Bijection DEF ExistsBijection
  <1>5. QED
    BY <1>3, <1>4

\* The counters of the allocator are right: no panic, each slab on the list
\* that fits its count, total_inuse the number of slabs in use and, between
\* calls, allocated_objects and the counts those of the live objects.  For
\* every number of threads, slabs and objects of a slab.
THEOREM CountsAddUp == Spec => []SlabCounts
  <1>1. ASSUME IInv, StatsInv PROVE SlabCounts
    <2>1. NoPanic /\ ListFitsCount /\ InUseCounts
      BY <1>1 DEF IInv, StatsInv, UsedCounted, InUseCounts
    <2>2. ASSUME \A t \in Thread : pc[t] = "idle" PROVE allocated_objects = Cardinality(Live)
      <3>1. Pushing = {}
        BY <2>2 DEF Pushing
      <3>2. Cardinality(Live) \in Nat
        BY <1>1, FS_CardinalityType DEF StatsInv, AllocCounted
      <3>3. QED
        BY <1>1, <3>1, <3>2, FS_EmptySet DEF StatsInv, AllocCounted
    <2>3. NothingLeaks
      BY <1>1, <2>2, Quiet DEF NothingLeaks
    <2>4. QED
      BY <2>1, <2>3 DEF SlabCounts
  <1>2. QED
    BY <1>1, Statistics, PTL
=============================================================================
