------------------------------ MODULE CpuProofs ------------------------------
(***************************************************************************)
(* Theorems about SoftTlb, CpuFlow and Fpu, for any number of entries and  *)
(* pages, any settings of the guest, any sizes of the soft tables, any     *)
(* program and any number and width of floating-point registers.           *)
(*                                                                         *)
(* What a soft table holds is the TLB's answer for one page: it stays so   *)
(* because the answer depends on the entries and on the ASID alone         *)
(* (AnswerStays), and every step that changes either empties the tables.   *)
(*                                                                         *)
(* The interpreter and compiled blocks both do what a MIPS does, branch    *)
(* slots and exceptions included, because outside a block next_pc is the   *)
(* word after pc unless a slot is due, and inside one pc follows the       *)
(* operation being run (FlowInv).                                          *)
(*                                                                         *)
(* The registers of the FPU serve code of both modes, because with FR      *)
(* clear every access goes to an even register or to a half of one (Kept), *)
(* and code of both formats, because a single survives as a double.        *)
(*                                                                         *)
(* Theorems about CodeCache: for any number and size of pages, any block   *)
(* limit and any instruction set, the dynarec's cache is well formed, its  *)
(* lookup hint never outlives a block and its page marks are sound; and,   *)
(* under a discipline of the writers that is stated where it is needed,    *)
(* neither cache holds stale code.                                         *)
(***************************************************************************)
EXTENDS SoftTlb, CpuFlow, Fpu, CodeCache, Integers, WellFoundedInduction, TLAPS

USE SoftTlbAssumption

\* Entries and EntryHi have their fields, RANDOM is a number, the tables have their indices.
TlbShape ==
    /\ entryAt \in [Index -> Entry \cup {NoEntry}]
    /\ entryHi \in [vpn2 : Nat, ext : BOOLEAN, asid : Asid]
    /\ random \in Nat /\ wired \in Nat
    /\ loads = [s \in 0 .. SoftSize - 1 |-> loads[s]]
    /\ stores = [s \in 0 .. SoftSize - 1 |-> stores[s]]

\* With the same entries and the same ASID the TLB answers the same.
LEMMA AnswerStays ==
  ASSUME NEW page, NEW access, entryAt' = entryAt, entryHi'.asid = entryHi.asid
  PROVE  Probe(page, access)' = Probe(page, access)
<1>1. Hits(page \div 2, Ext(page))' = Hits(page \div 2, Ext(page))
  BY DEF Hits, Matches
<1>2. LookUp(page \div 2, Ext(page))' = LookUp(page \div 2, Ext(page))
  BY <1>1, Zenon DEF LookUp
<1>3. QED
  BY <1>2, Zenon DEF Probe

\* A step that keeps the entries, the ASID and both tables keeps the tables fresh.
LEMMA TablesStay ==
  ASSUME SoftTlbFresh, entryAt' = entryAt, entryHi'.asid = entryHi.asid,
         UNCHANGED <<loads, stores>>
  PROVE  SoftTlbFresh'
<1>1. ASSUME NEW page, NEW access
      PROVE  Probe(page, access)' = Probe(page, access)
  BY AnswerStays
<1>2. QED
  BY <1>1, Zenon DEF SoftTlbFresh

\* Empty tables are fresh.
LEMMA FlushedIsFresh ==
  ASSUME FlushSoft
  PROVE  SoftTlbFresh'
BY Zenon DEF FlushSoft, Empty, SoftTlbFresh

\* A table keeps its answers when it takes one more from the TLB.
LEMMA NotedIsFresh ==
  ASSUME TlbShape, SoftTlbFresh, NEW page \in Nat, NEW access \in {"load", "store"},
         UNCHANGED <<entryAt, entryHi>>,
         Note(page, Probe(page, access).paddr, access)
  PROVE  SoftTlbFresh'
<1> DEFINE noted == [page |-> page, paddr |-> Probe(page, access).paddr]
<1>1. ASSUME NEW p, NEW a
      PROVE  Probe(p, a)' = Probe(p, a)
  BY AnswerStays
<1>2. noted.page = page /\ noted.paddr = Probe(page, access).paddr
  OBVIOUS
<1>3. CASE access = "load"
  <2>1. loads' = [loads EXCEPT ![SoftIndex(page)] = noted] /\ stores' = stores
    BY <1>3, Zenon DEF Note, Table
  <2>2. ASSUME NEW s \in DOMAIN loads'
        PROVE  s \in DOMAIN loads /\ (loads'[s] = loads[s] \/ loads'[s] = noted)
    <3> HIDE DEF noted
    <3>1. QED BY <2>1, <2>2, Zenon
  <2>3. QED
    BY <1>1, <1>2, <1>3, <2>1, <2>2, Zenon DEF SoftTlbFresh
<1>4. CASE access = "store"
  <2>1. stores' = [stores EXCEPT ![SoftIndex(page)] = noted] /\ loads' = loads
    BY <1>4, Zenon DEF Note, Table
  <2>2. ASSUME NEW s \in DOMAIN loads'
        PROVE  s \in DOMAIN stores /\ (stores'[s] = stores[s] \/ stores'[s] = noted)
    <3>1. DOMAIN loads = DOMAIN stores
      BY DEF TlbShape
    <3> HIDE DEF noted
    <3>2. QED BY <2>1, <2>2, <3>1, Zenon
  <2>3. QED
    BY <1>1, <1>2, <1>4, <2>1, <2>2, Zenon DEF SoftTlbFresh
<1>5. QED
  BY <1>3, <1>4

-----------------------------------------------------------------------------
(***************************************************************************)
(* The shape of the state, whatever the guest does.                        *)
(***************************************************************************)

\* A page is in Nat, its pair of pages too.
LEMMA PageIsNatural ==
  ASSUME NEW p \in VPage
  PROVE  p \in Nat /\ p \div 2 \in Nat
BY DEF VPage

\* What a guest writes is an entry.
LEMMA WrittenIsEntry ==
  ASSUME TlbShape, NEW w \in Setting
  PROVE  TlbEntry(w) \in Entry
<1>1. entryHi.vpn2 \in Nat /\ entryHi.ext \in BOOLEAN /\ entryHi.asid \in Asid
  BY DEF TlbShape
<1>2. Span(w.field) \in {1, 4}
  BY DEF Span
<1>3. (entryHi.vpn2 \div Span(w.field)) * Span(w.field) \in Nat
  BY <1>1, <1>2
<1>4. QED
  BY <1>1, <1>2, <1>3 DEF TlbEntry, Entry

\* RANDOM stays a number.
LEMMA RandomIsNatural ==
  ASSUME TlbShape, NEW v \in Nat
  PROVE  InRange(random, v) \in Nat /\ RandomLo(v) \in Nat
BY DEF TlbShape, InRange, RandomLo, RandomHi

\* The tables start with their shape.
LEMMA ShapeAtStart == TlbInit => TlbShape
BY DEF TlbInit, TlbShape, Empty, Index

\* A load or store, hit or miss, keeps the shape.
LEMMA AccessKeepsShape ==
  ASSUME TlbShape, NEW p \in VPage, NEW a \in {"load", "store"},
         NEW crosses \in BOOLEAN, NEW cached \in BOOLEAN, Access(p, a, crosses, cached)
  PROVE  TlbShape'
<1>1. \/ UNCHANGED entryHi
      \/ entryHi' = [entryHi EXCEPT !.vpn2 = p \div 2, !.ext = Ext(p)]
  BY Zenon DEF Access, TlbException
<1>2. entryHi' \in [vpn2 : Nat, ext : BOOLEAN, asid : Asid]
  <2>1. p \div 2 \in Nat /\ Ext(p) \in BOOLEAN
    BY PageIsNatural DEF Ext
  <2>2. entryHi \in [vpn2 : Nat, ext : BOOLEAN, asid : Asid]
    BY DEF TlbShape
  <2>3. QED
    BY <1>1, <2>1, <2>2
<1>3. \/ UNCHANGED <<loads, stores>>
      \/ Note(p, Probe(p, a).paddr, a)
  BY Zenon DEF Access
<1>4. /\ loads' = [s \in 0 .. SoftSize - 1 |-> loads'[s]]
      /\ stores' = [s \in 0 .. SoftSize - 1 |-> stores'[s]]
  BY <1>3 DEF Note, Table, TlbShape
<1>5. QED
  BY <1>2, <1>4 DEF Access, TlbShape

\* So does every step.
LEMMA ShapeStays ==
  ASSUME TlbShape, [TlbNext]_tlbVars
  PROVE  TlbShape'
<1>1. CASE TlbReset
  BY <1>1 DEF TlbReset, FlushSoft, Empty, TlbShape, Index
<1>2. ASSUME NEW p \in VPage, NEW a \in {"load", "store"}, NEW crosses \in BOOLEAN,
             NEW cached \in BOOLEAN, Access(p, a, crosses, cached)
      PROVE  TlbShape'
  BY <1>2, AccessKeepsShape
<1>3. ASSUME NEW p \in VPage, NEW wide \in BOOLEAN, NEW a \in Asid, WriteEntryHi(p, wide, a)
      PROVE  TlbShape'
  <2>1. entryHi' \in [vpn2 : Nat, ext : BOOLEAN, asid : Asid]
    BY <1>3, PageIsNatural DEF WriteEntryHi, Ext
  <2>2. QED
    BY <1>3, <2>1 DEF WriteEntryHi, FlushSoft, Empty, TlbShape
<1>4. ASSUME NEW v \in WiredValue, WriteWired(v)
      PROVE  TlbShape'
  BY <1>4, RandomIsNatural DEF WriteWired, TlbShape
<1>5. ASSUME NEW i \in Index, NEW w \in Setting, WriteIndexed(i, w)
      PROVE  TlbShape'
  BY <1>5, WrittenIsEntry DEF WriteIndexed, FlushSoft, Empty, TlbShape
<1>6. ASSUME NEW w \in Setting, WriteRandom(w)
      PROVE  TlbShape'
  <2>1. entryAt' \in [Index -> Entry \cup {NoEntry}]
    BY <1>6, WrittenIsEntry DEF WriteRandom, TlbShape
  <2>2. random' \in Nat
    BY <1>6, RandomIsNatural DEF WriteRandom, TlbShape
  <2>3. QED
    BY <1>6, <2>1, <2>2 DEF WriteRandom, FlushSoft, Empty, TlbShape
<1>7. ASSUME NEW i \in Index, ReadEntry(i)
      PROVE  TlbShape'
  <2>1. entryAt[i] \in Entry
    BY <1>7 DEF ReadEntry, TlbShape
  <2>2. entryHi' \in [vpn2 : Nat, ext : BOOLEAN, asid : Asid]
    BY <1>7, <2>1 DEF ReadEntry, Entry
  <2>3. QED
    BY <1>7, <2>2 DEF ReadEntry, TlbShape
<1>8. CASE UNCHANGED tlbVars
  BY <1>8 DEF tlbVars, TlbShape
<1>9. QED
  BY <1>1, <1>2, <1>3, <1>4, <1>5, <1>6, <1>7, <1>8 DEF TlbNext

-----------------------------------------------------------------------------
(***************************************************************************)
(* The soft TLB stays fresh.                                               *)
(***************************************************************************)

\* The tables start empty.
LEMMA FlushedAtStart == TlbInit => SoftTlbFresh
BY Zenon DEF TlbInit, Empty, SoftTlbFresh

\* An access notes what the TLB said, or changes nothing but the page in EntryHi.
LEMMA AccessKeepsFresh ==
  ASSUME TlbShape, SoftTlbFresh, NEW p \in VPage, NEW a \in {"load", "store"},
         NEW crosses \in BOOLEAN, NEW cached \in BOOLEAN, Access(p, a, crosses, cached)
  PROVE  SoftTlbFresh'
<1>1. CASE UNCHANGED <<entryHi, loads, stores>>
  BY <1>1, TablesStay, Zenon DEF Access
<1>2. CASE TlbException(p) /\ UNCHANGED <<loads, stores>>
  <2>1. entryHi'.asid = entryHi.asid
    BY <1>2 DEF TlbException, TlbShape
  <2>2. QED
    BY <1>2, <2>1, TablesStay, Zenon DEF Access
<1>3. CASE Note(p, Probe(p, a).paddr, a) /\ UNCHANGED entryHi
  <2>1. UNCHANGED <<entryAt, entryHi>>
    BY <1>3, Zenon DEF Access
  <2>2. QED
    BY <1>3, <2>1, NotedIsFresh, PageIsNatural
<1>4. \/ UNCHANGED <<entryHi, loads, stores>>
      \/ TlbException(p) /\ UNCHANGED <<loads, stores>>
      \/ Note(p, Probe(p, a).paddr, a) /\ UNCHANGED entryHi
  BY Zenon DEF Access
<1>5. QED
  BY <1>1, <1>2, <1>3, <1>4

\* Every step but the reading back of a foreign entry keeps the tables fresh.
LEMMA FreshStays ==
  ASSUME ~AnyRead, TlbShape, SoftTlbFresh, [TlbNext]_tlbVars
  PROVE  SoftTlbFresh'
<1>1. CASE TlbReset
  BY <1>1, FlushedIsFresh DEF TlbReset
<1>2. ASSUME NEW p \in VPage, NEW a \in {"load", "store"}, NEW crosses \in BOOLEAN,
             NEW cached \in BOOLEAN, Access(p, a, crosses, cached)
      PROVE  SoftTlbFresh'
  BY <1>2, AccessKeepsFresh
<1>3. ASSUME NEW p \in VPage, NEW wide \in BOOLEAN, NEW a \in Asid, WriteEntryHi(p, wide, a)
      PROVE  SoftTlbFresh'
  <2>1. entryHi'.asid = a
    BY <1>3 DEF WriteEntryHi
  <2>2. CASE a = entryHi.asid
    BY <1>3, <2>1, <2>2, TablesStay, Zenon DEF WriteEntryHi
  <2>3. CASE a # entryHi.asid
    BY <1>3, <2>3, FlushedIsFresh, Zenon DEF WriteEntryHi
  <2>4. QED
    BY <2>2, <2>3
<1>4. ASSUME NEW v \in WiredValue, WriteWired(v)
      PROVE  SoftTlbFresh'
  BY <1>4, TablesStay, Zenon DEF WriteWired
<1>5. ASSUME NEW i \in Index, NEW w \in Setting, WriteIndexed(i, w)
      PROVE  SoftTlbFresh'
  BY <1>5, FlushedIsFresh DEF WriteIndexed
<1>6. ASSUME NEW w \in Setting, WriteRandom(w)
      PROVE  SoftTlbFresh'
  BY <1>6, FlushedIsFresh DEF WriteRandom
<1>7. ASSUME NEW i \in Index, ReadEntry(i)
      PROVE  SoftTlbFresh'
  <2>1. entryHi'.asid = entryHi.asid
    BY <1>7 DEF ReadEntry
  <2>2. QED
    BY <1>7, <2>1, TablesStay, Zenon DEF ReadEntry
<1>8. CASE UNCHANGED tlbVars
  BY <1>8, TablesStay, Zenon DEF tlbVars
<1>9. QED
  BY <1>1, <1>2, <1>3, <1>4, <1>5, <1>6, <1>7, <1>8 DEF TlbNext

\* As long as the guest reads back only entries of its own address space, the soft TLB
\* answers what the TLB would: no refill, change of ASID or page size leaves an answer
\* behind. (mmu/soft_tlb.cpp, mmu/tlb.cpp, cpu/cop0.cpp)
THEOREM SoftTlbCorrect ==
  ASSUME ~AnyRead
  PROVE  TlbSpec => []SoftTlbFresh
<1>1. TlbInit => TlbShape /\ SoftTlbFresh
  BY ShapeAtStart, FlushedAtStart
<1>2. (TlbShape /\ SoftTlbFresh) /\ [TlbNext]_tlbVars => (TlbShape /\ SoftTlbFresh)'
  BY ShapeStays, FreshStays
<1>3. QED
  BY <1>1, <1>2, PTL DEF TlbSpec

-----------------------------------------------------------------------------
(***************************************************************************)
(* What a refill does.                                                     *)
(***************************************************************************)

\* A non-empty set of naturals has a least member, and Min finds it.
LEMMA MinIsMember ==
  ASSUME NEW T, T \subseteq Nat, T # {}
  PROVE  Min(T) \in T
<1> DEFINE R == OpToRel(<, Nat)
<1>1. IsWellFoundedOn(R, Nat)
  BY NatLessThanWellFounded
<1>2. PICK x \in T : \A y \in T : ~(<<y, x>> \in R)
  <2> HIDE DEF R
  <2> QED BY <1>1, WFMin
<1>3. ASSUME NEW y \in T
      PROVE  x <= y
  <2>1. CASE y < x
    <3>1. <<y, x>> \in R
      BY <2>1 DEF OpToRel
    <3> QED BY <1>2, <3>1
  <2>2. CASE ~(y < x)
    BY <2>2
  <2> QED BY <2>1, <2>2
<1>4. QED
  BY <1>3 DEF Min

\* A page some entry matches is found, here in the state a step leads to.
LEMMA MatchedIsNoMiss ==
  ASSUME NEW i \in Index, NEW page, NEW access,
         Matches(entryAt[i], page \div 2, Ext(page))'
  PROVE  Probe(page, access)'.error # "miss"
<1> DEFINE hits == Hits(page \div 2, Ext(page))'
<1>1. hits \subseteq Nat /\ i \in hits
  BY DEF Hits, Index
<1>2. Min(hits) \in Nat
  <2> HIDE DEF hits
  <2>1. QED BY <1>1, MinIsMember
<1>3. LookUp(page \div 2, Ext(page))' # NoEntry
  BY <1>1, <1>2 DEF LookUp
<1>4. QED
  BY <1>3 DEF Probe

\* Rounding down to a multiple of the span keeps the quotient.
LEMMA RoundedQuotient ==
  ASSUME NEW n \in Nat, NEW span \in {1, 4}
  PROVE  n \div span = ((n \div span) * span) \div span
<1>1. CASE span = 1
  BY <1>1
<1>2. CASE span = 4
  BY <1>2
<1>3. QED
  BY <1>1, <1>2

\* The entry a guest writes matches the pages EntryHi names.
LEMMA EntryMatches ==
  ASSUME TlbShape, NEW w \in Setting, NEW p \in VPage,
         entryHi.vpn2 = p \div 2, entryHi.ext = Ext(p)
  PROVE  Matches(TlbEntry(w), p \div 2, Ext(p))
<1>1. TlbEntry(w) # NoEntry
  BY WrittenIsEntry
<1>2. Span(w.field) \in {1, 4} /\ p \div 2 \in Nat
  BY PageIsNatural DEF Span
<1>3. (p \div 2) \div Span(w.field) = (((p \div 2) \div Span(w.field)) * Span(w.field)) \div Span(w.field)
  BY <1>2, RoundedQuotient
<1>4. QED
  BY <1>1, <1>3 DEF Matches, TlbEntry

\* An entry written to the TLB is seen there in the next state.
LEMMA WriteCures ==
  ASSUME TlbShape, NEW i \in Index, NEW w \in Setting, NEW p \in VPage,
         entryHi.vpn2 = p \div 2, entryHi.ext = Ext(p),
         entryAt' = [entryAt EXCEPT ![i] = TlbEntry(w)], entryHi' = entryHi
  PROVE  Probe(p, "load")'.error # "miss"
<1>1. Matches(TlbEntry(w), p \div 2, Ext(p))
  BY EntryMatches
<1>2. entryAt'[i] = TlbEntry(w)
  BY DEF TlbShape
<1>3. Matches(entryAt[i], p \div 2, Ext(p))'
  BY <1>1, <1>2, Zenon DEF Matches
<1>4. QED
  BY <1>3, MatchedIsNoMiss

\* The refill a miss asks for cures it, whatever page size the guest chooses and
\* whatever older entries are left. (mmu/tlb.cpp, cpu/cop0.cpp)
THEOREM RefillCorrect == TlbSpec => RefillCures
<1>1. TlbInit => TlbShape
  BY ShapeAtStart
<1>2. TlbShape /\ [TlbNext]_tlbVars => TlbShape'
  BY ShapeStays
<1>3. TlbShape /\ [TlbNext]_tlbVars
        => [entryAt' # entryAt /\ ~TlbReset =>
              \A p \in VPage : entryHi.vpn2 = p \div 2 /\ entryHi.ext = Ext(p)
                              => Probe(p, "load")'.error # "miss"]_tlbVars
  <2> SUFFICES ASSUME TlbShape, TlbNext, entryAt' # entryAt, ~TlbReset,
                      NEW p \in VPage, entryHi.vpn2 = p \div 2, entryHi.ext = Ext(p)
               PROVE  Probe(p, "load")'.error # "miss"
    OBVIOUS
  <2>1. ASSUME NEW i \in Index, NEW w \in Setting, WriteIndexed(i, w)
        PROVE  Probe(p, "load")'.error # "miss"
    BY <2>1, WriteCures DEF WriteIndexed
  <2>2. ASSUME NEW w \in Setting, WriteRandom(w)
        PROVE  Probe(p, "load")'.error # "miss"
    <3> DEFINE i == InRange(random, wired) % NumEntries
    <3>1. i \in Index
      BY RandomIsNatural DEF TlbShape, Index
    <3>2. entryAt' = [entryAt EXCEPT ![i] = TlbEntry(w)] /\ entryHi' = entryHi
      BY <2>2 DEF WriteRandom
    <3> HIDE DEF i
    <3>3. QED
      BY <3>1, <3>2, WriteCures
  <2>3. QED
    BY <2>1, <2>2, Zenon DEF TlbNext, Access, WriteEntryHi, WriteWired, ReadEntry
<1>4. QED
  BY <1>1, <1>2, <1>3, PTL DEF TlbSpec, RefillCures

-----------------------------------------------------------------------------
(***************************************************************************)
(* The flow of control.                                                    *)
(***************************************************************************)
HIDE SoftTlbAssumption
USE FlowAssumption

\* Compiled code meets an unusable FPU only where do_fpu and do_bc1 handle it.
FpuFaultsAreSeen == ~NestedFpu /\ ~LikelyFpu

FlowTypes ==
    /\ pc \in PcWord /\ nextPc \in PcWord /\ epc \in PcWord
    /\ delaySlot \in BOOLEAN /\ prevDelaySlot \in BOOLEAN
    /\ exl \in BOOLEAN /\ annul \in BOOLEAN
    /\ mode \in {"out", "fetch", "handler", "block"}
    /\ opAt \in PcWord /\ left \in Int

FlowInv ==
    /\ FlowTypes
    /\ annul => mode = "out" /\ delaySlot /\ nextPc = After(pc)
    /\ mode = "out" /\ ~delaySlot => nextPc = After(pc)
    /\ mode = "fetch" => ~delaySlot /\ (~prevDelaySlot => nextPc = After(pc))
    /\ mode = "handler" => ~delaySlot /\ exl /\ nextPc = After(pc)
    /\ mode = "block" => left > 0 /\ opAt = pc /\ (IF delaySlot THEN left = 1 ELSE nextPc = After(pc))

\* The words before and after a word are words: the PC wraps.
LEMMA WordsAreClosed ==
  ASSUME NEW w \in PcWord
  PROVE  After(w) \in PcWord /\ Before(w) \in PcWord
BY DEF PcWord, After, Before

\* Every exception leaves pc at a vector, and next_pc behind it.
LEMMA RaiseGoesToVector ==
  ASSUME NEW kind, NEW from \in PcWord, NEW inSlot \in BOOLEAN, NEW before,
         FlowTypes, Raise(kind, from, inSlot, before)
  PROVE  /\ pc' \in PcWord /\ nextPc' = After(pc') /\ nextPc' \in PcWord
         /\ epc' \in PcWord /\ exl' = TRUE
BY WordsAreClosed DEF Raise, FlowTypes, PcWord

\* An interrupt at the start of a step.
LEMMA StepBeginKeeps == FlowInv /\ StepBegin => FlowInv'
<1> SUFFICES ASSUME FlowInv, StepBegin PROVE FlowInv'
  OBVIOUS
<1>1. CASE Raise("other", pc, delaySlot, pc) /\ mode' = "handler"
  BY <1>1, RaiseGoesToVector DEF FlowInv, FlowTypes, StepBegin, blockVars
<1>2. CASE mode' = "fetch" /\ UNCHANGED <<pcVars, excVars, skipped>>
  BY <1>2 DEF FlowInv, FlowTypes, StepBegin, blockVars, pcVars, excVars, After
<1>3. QED
  BY <1>1, <1>2 DEF StepBegin

\* A fetch that the TLB refuses.
LEMMA FetchMissKeeps == FlowInv /\ FetchMiss => FlowInv'
<1> SUFFICES ASSUME FlowInv, FetchMiss PROVE FlowInv'
  OBVIOUS
<1>1. PICK k \in {"miss", "other"} : Raise(k, pc, prevDelaySlot, pc)
  BY DEF FetchMiss
<1>2. QED
  BY <1>1, RaiseGoesToVector DEF FlowInv, FlowTypes, FetchMiss, blockVars

\* An operation that neither branches nor faults moves pc and next_pc on by one.
LEMMA PlainGoesOn ==
  ASSUME FlowTypes, Plain
  PROVE  /\ pc' = nextPc /\ nextPc' = After(pc') /\ nextPc' \in PcWord
         /\ ~delaySlot' /\ delaySlot' \in BOOLEAN
         /\ epc' = epc /\ exl' = exl /\ annul' = annul
BY WordsAreClosed DEF Plain, Advance, FlowTypes, excVars

\* The interpreter keeps FlowInv.
LEMMA ExecuteOneKeeps == FlowInv /\ ExecuteOne => FlowInv'
<1> SUFFICES ASSUME FlowInv, ExecuteOne PROVE FlowInv'
  OBVIOUS
<1> DEFINE inSlot == mode = "fetch" /\ prevDelaySlot
<1>1. mode' = "out" /\ UNCHANGED <<prevDelaySlot, opAt, left>> /\ FlowTypes /\ ~annul
  BY DEF ExecuteOne, FlowInv, blockVars
<1>2. CASE Plain
  <2>1. FlowTypes'
    BY <1>1, <1>2, PlainGoesOn DEF FlowTypes
  <2>2. QED
    BY <1>1, <1>2, <2>1, PlainGoesOn DEF FlowInv
<1>3. CASE BranchTo(inSlot)
  BY <1>1, <1>3 DEF BranchTo, FlowInv, FlowTypes, excVars
<1>4. CASE LikelyNotTaken("interp", inSlot)
  BY <1>1, <1>4, WordsAreClosed DEF LikelyNotTaken, FlowInv, FlowTypes, excVars
<1>5. CASE Eret(inSlot)
  BY <1>1, <1>5, WordsAreClosed DEF Eret, FlowInv, FlowTypes
<1>6. ASSUME NEW k \in {"miss", "other"}, Fault(k, prevDelaySlot) /\ UNCHANGED annul
      PROVE  FlowInv'
  BY <1>1, <1>6, RaiseGoesToVector DEF Fault, FlowInv, FlowTypes
<1>7. QED
  BY <1>2, <1>3, <1>4, <1>5, <1>6 DEF ExecuteOne, Likely

\* Compiled code keeps it when it sees the faults of the FPU.
LEMMA OperationKeeps == FpuFaultsAreSeen /\ FlowInv /\ Operation => FlowInv'
<1> SUFFICES ASSUME FpuFaultsAreSeen, FlowInv, Operation PROVE FlowInv'
  OBVIOUS
<1>1. /\ mode = "block" /\ prevDelaySlot' = delaySlot /\ ~annul
      /\ opAt' = After(pc) /\ opAt' \in PcWord /\ left' = left - 1 /\ left' \in Int /\ FlowTypes
  BY WordsAreClosed DEF Operation, FlowInv, FlowTypes
<1>2. CASE Plain /\ Continue
  BY <1>1, <1>2, PlainGoesOn DEF FlowInv, FlowTypes, Continue
<1>3. CASE EndsBlock /\ BranchTo(delaySlot) /\ Continue
  BY <1>1, <1>3 DEF BranchTo, FlowInv, FlowTypes, excVars, EndsBlock, Continue
<1>4. CASE LikelyNotTaken("jit", delaySlot) /\ Leave
  BY <1>1, <1>4, WordsAreClosed DEF LikelyNotTaken, FlowInv, FlowTypes, excVars, Leave
<1>5. ASSUME NEW k \in {"miss", "other"}, Fault(k, delaySlot) /\ UNCHANGED annul /\ Leave
      PROVE  FlowInv'
  BY <1>1, <1>5, RaiseGoesToVector DEF Fault, FlowInv, FlowTypes, Leave
<1>6. CASE FpuFault
  <2>1. Fault("other", delaySlot) /\ UNCHANGED annul /\ Leave
    BY <1>6 DEF FpuFault, FpuFaultsAreSeen
  <2>2. QED
    BY <2>1, <1>5
<1>7. QED
  BY <1>2, <1>3, <1>4, <1>5, <1>6 DEF Operation

\* Every step keeps it.
LEMMA FlowInvKept == FpuFaultsAreSeen /\ FlowInv /\ [CpuNext]_cpuVars => FlowInv'
<1> SUFFICES ASSUME FpuFaultsAreSeen, FlowInv, [CpuNext]_cpuVars PROVE FlowInv'
  OBVIOUS
<1>1. CASE DropAnnulled
  BY <1>1 DEF DropAnnulled, FlowInv, FlowTypes, pcVars, excVars, blockVars, After
<1>2. CASE DynaInterrupt
  BY <1>2, RaiseGoesToVector DEF DynaInterrupt, FlowInv, FlowTypes, blockVars
<1>3. CASE EnterBlock
  <2>1. After(pc)' = After(pc)
    BY <1>3 DEF EnterBlock, pcVars, After
  <2>2. left' \in Int /\ left' > 0
    BY <1>3 DEF EnterBlock
  <2>3. FlowTypes'
    BY <1>3, <2>2 DEF EnterBlock, FlowInv, FlowTypes, pcVars, excVars
  <2>4. QED
    BY <1>3, <2>1, <2>2, <2>3 DEF EnterBlock, FlowInv, pcVars, excVars
<1>4. CASE UNCHANGED cpuVars
  BY <1>4 DEF cpuVars, FlowInv, FlowTypes, After
<1>5. QED
  BY <1>1, <1>2, <1>3, <1>4, StepBeginKeeps, FetchMissKeeps, ExecuteOneKeeps, OperationKeeps DEF CpuNext


\* It holds at the start.
LEMMA FlowInvInit == CpuInit => FlowInv
<1>1. 0 \in PcWord
  BY DEF PcWord
<1>2. After(0) \in PcWord
  BY <1>1, WordsAreClosed
<1>3. CpuInit => FlowTypes
  <2>1. 0 \in Int
    OBVIOUS
  <2>2. QED
    BY <1>1, <1>2, <2>1, Zenon DEF CpuInit, FlowTypes
<1>4. QED
  BY <1>3 DEF CpuInit, FlowInv

\* Through either engine, every operation of a block runs at the PC it was compiled
\* for and with the flag of the branch before it. (cpu/jit/emit_x64.cpp emit,
\* cpu/jit/jit.cpp Dynarec::run)
THEOREM BlocksRunInStep == ASSUME FpuFaultsAreSeen PROVE CpuSpec => []BlockInStep
<1>1. CpuInit => FlowInv
  BY FlowInvInit
<1>2. FlowInv /\ [CpuNext]_cpuVars => FlowInv'
  BY FlowInvKept
<1>3. FlowInv => BlockInStep
  BY DEF FlowInv, BlockInStep
<1>4. QED
  BY <1>1, <1>2, <1>3, PTL DEF CpuSpec

-----------------------------------------------------------------------------
Slot == IF \/ delaySlot /\ ~annul
           \/ mode = "fetch" /\ prevDelaySlot
        THEN nextPc ELSE NoPc

\* MipsFlow counts words the same way.
LEMMA SameWords == \A w \in PcWord : Flow!After(w) = After(w) /\ Flow!Before(w) = Before(w) /\ w # NoPc
BY DEF Flow!After, Flow!Before, After, Before, PcWord

\* Nothing the program sees.
Unseen == pc' = pc /\ Slot' = Slot /\ exl' = exl /\ epc' = epc

\* An exception, with or without a slot.
LEMMA RaiseIsException ==
  ASSUME NEW kind, NEW from, NEW inSlot \in BOOLEAN, NEW before,
         FlowInv, Raise(kind, from, inSlot, before),
         ~exl => from = pc /\ (inSlot <=> Slot # NoPc),
         Slot' = NoPc
  PROVE  \E v \in {Refill, General} : Flow!Exception(v)
<1> DEFINE vector == IF kind = "miss" /\ ~exl THEN Refill ELSE General
<1>1. pc' = vector /\ exl' = TRUE /\ epc' = IF exl THEN epc ELSE IF inSlot THEN Before(from) ELSE from
  BY DEF Raise
<1>2. Flow!Before(pc) = Before(pc)
  BY SameWords DEF FlowInv, FlowTypes
<1>3. Flow!Exception(vector)
  BY <1>1, <1>2 DEF Flow!Exception, Flow!Go, Slot
<1>4. QED
  BY <1>3

\* One instruction goes from pc on to nextPc.
LEMMA PlainIsExecute ==
  ASSUME FlowInv, Plain, Slot = NoPc => nextPc = After(pc), Slot # NoPc => Slot = nextPc, Slot' = NoPc
  PROVE  Flow!Execute
<1>1. Flow!After(pc) = After(pc)
  BY SameWords DEF FlowInv, FlowTypes
<1>2. QED
  BY <1>1, PlainGoesOn DEF FlowInv, Flow!Execute, Flow!Go, Slot

\* A branch of an engine is one of the MIPS.
LEMMA BranchIsBranch ==
  ASSUME FlowInv, NEW inSlot, BranchTo(inSlot), Slot = NoPc, nextPc = After(pc), mode' # "fetch", ~annul
  PROVE  Flow!Branch
<1>1. Flow!After(pc) = After(pc)
  BY SameWords DEF FlowInv, FlowTypes
<1>2. PICK t \in PcWord : nextPc' = t
  BY DEF BranchTo
<1>3. Slot' = t
  BY <1>2 DEF BranchTo, Slot
<1>4. t \in Flow!Place
  BY DEF PcWord, Flow!Place
<1>5. QED
  BY <1>1, <1>3, <1>4 DEF BranchTo, Flow!Branch, Flow!Go, Slot, excVars

\* A fault is an exception of the MIPS, in the slot it is in.
LEMMA FaultIsException ==
  ASSUME NEW kind, NEW inSlot \in BOOLEAN, FlowInv, Fault(kind, inSlot),
         ~exl => (inSlot <=> Slot # NoPc), mode' # "fetch"
  PROVE  \E v \in {Refill, General} : Flow!Exception(v)
<1>1. Slot' = NoPc
  BY DEF Fault, Slot
<1>2. QED
  BY <1>1, RaiseIsException DEF Fault

\* Each action of the engines is a step of the MIPS or is unseen by it.
LEMMA StepBeginFlows == FlowInv /\ StepBegin => Flow!FlowNext \/ Unseen
<1> SUFFICES ASSUME FlowInv, StepBegin PROVE Flow!FlowNext \/ Unseen
  OBVIOUS
<1>1. mode = "out" /\ ~annul /\ ~delaySlot' /\ prevDelaySlot' = delaySlot /\ annul' = annul /\ delaySlot \in BOOLEAN
  BY DEF StepBegin, FlowInv, FlowTypes
<1>2. Slot # NoPc <=> delaySlot
  BY <1>1, SameWords DEF Slot, FlowInv, FlowTypes
<1>3. CASE Raise("other", pc, delaySlot, pc) /\ mode' = "handler"
  <2>1. Slot' = NoPc
    BY <1>1, <1>3 DEF Slot
  <2>2. QED
    BY <1>1, <1>2, <1>3, <2>1, RaiseIsException DEF Flow!FlowNext
<1>4. CASE mode' = "fetch" /\ UNCHANGED <<pcVars, excVars, skipped>>
  BY <1>1, <1>4 DEF Unseen, Slot, pcVars, excVars
<1>5. QED
  BY <1>3, <1>4 DEF StepBegin

\* A refused fetch is an exception.
LEMMA FetchMissFlows == FlowInv /\ FetchMiss => Flow!FlowNext
<1> SUFFICES ASSUME FlowInv, FetchMiss PROVE Flow!FlowNext
  OBVIOUS
<1>1. PICK k \in {"miss", "other"} : Raise(k, pc, prevDelaySlot, pc)
  BY DEF FetchMiss
<1>2. Slot' = NoPc /\ (~exl => (prevDelaySlot <=> Slot # NoPc))
  BY SameWords DEF FetchMiss, FlowInv, FlowTypes, Slot
<1>3. prevDelaySlot \in BOOLEAN
  BY DEF FlowInv, FlowTypes
<1>4. QED
  BY <1>1, <1>2, <1>3, RaiseIsException DEF Flow!FlowNext

\* ERET returns, and no slot is due after it.
LEMMA EretIsReturn ==
  ASSUME FlowInv, NEW inSlot, Eret(inSlot), Slot = NoPc, mode' # "fetch"
  PROVE  Flow!Return
<1>1. Slot' = NoPc
  BY DEF Slot, Eret
<1>2. QED
  BY <1>1 DEF Eret, Flow!Return, Flow!Go, Slot

\* The interpreter does what the MIPS does, annulled slots set aside.
LEMMA ExecuteOneFlows == "interp" \notin LikelyIn /\ FlowInv /\ ExecuteOne => Flow!FlowNext
<1> SUFFICES ASSUME "interp" \notin LikelyIn, FlowInv, ExecuteOne PROVE Flow!FlowNext
  OBVIOUS
<1> DEFINE inSlot == mode = "fetch" /\ prevDelaySlot
<1>1. mode' = "out" /\ mode \in {"fetch", "handler"} /\ ~annul /\ ~delaySlot /\ prevDelaySlot \in BOOLEAN
  BY DEF ExecuteOne, FlowInv, FlowTypes
<1>2. Slot = IF inSlot THEN nextPc ELSE NoPc
  BY <1>1 DEF Slot
<1>3. (Slot # NoPc <=> inSlot) /\ (~inSlot => nextPc = After(pc)) /\ (mode = "handler" => exl)
  BY <1>1, <1>2, SameWords DEF FlowInv, FlowTypes
<1>4. CASE Plain
  <2>1. Slot' = NoPc
    BY <1>1, <1>4, PlainGoesOn DEF Slot, FlowInv
  <2>2. QED
    BY <1>2, <1>3, <1>4, <2>1, PlainIsExecute DEF Flow!FlowNext
<1>5. CASE BranchTo(inSlot)
  <2>1. ~inSlot
    BY <1>5 DEF BranchTo
  <2>2. QED
    BY <1>1, <1>3, <1>5, <2>1, BranchIsBranch DEF Flow!FlowNext
<1>6. CASE Eret(inSlot)
  <2>1. ~inSlot
    BY <1>6 DEF Eret
  <2>2. QED
    BY <1>1, <1>3, <1>6, <2>1, EretIsReturn DEF Flow!FlowNext
<1>7. ASSUME NEW k \in {"miss", "other"}, Fault(k, prevDelaySlot)
      PROVE  Flow!FlowNext
  BY <1>1, <1>3, <1>7, FaultIsException DEF Flow!FlowNext
<1>8. ~Likely("interp", inSlot)
  BY DEF Likely, LikelyNotTaken
<1>9. QED
  BY <1>4, <1>5, <1>6, <1>7, <1>8 DEF ExecuteOne

\* So does each operation of a block.
LEMMA OperationFlows == FpuFaultsAreSeen /\ FlowInv /\ Operation => Flow!FlowNext
<1> SUFFICES ASSUME FpuFaultsAreSeen, FlowInv, Operation PROVE Flow!FlowNext
  OBVIOUS
<1>1. mode = "block" /\ mode' \in {"out", "block"} /\ ~annul /\ delaySlot \in BOOLEAN
  BY DEF Operation, FlowInv, FlowTypes, FpuFault, FpuFaultsAreSeen, Continue, Leave
<1>2. Slot = IF delaySlot THEN nextPc ELSE NoPc
  BY <1>1 DEF Slot
<1>3. (Slot # NoPc <=> delaySlot) /\ (~delaySlot => nextPc = After(pc))
  BY <1>1, <1>2, SameWords DEF FlowInv, FlowTypes
<1>4. CASE Plain
  <2>1. Slot' = NoPc
    BY <1>1, <1>4, PlainGoesOn DEF Slot, FlowInv
  <2>2. QED
    BY <1>2, <1>3, <1>4, <2>1, PlainIsExecute DEF Flow!FlowNext
<1>5. CASE BranchTo(delaySlot)
  <2>1. ~delaySlot
    BY <1>5 DEF BranchTo
  <2>2. QED
    BY <1>1, <1>3, <1>5, <2>1, BranchIsBranch DEF Flow!FlowNext
<1>6. CASE LikelyNotTaken("jit", delaySlot) /\ Leave
  <2>1. ~delaySlot /\ annul' /\ mode' = "out" /\ pc' = After(After(pc)) /\ exl' = exl /\ epc' = epc
    BY <1>3, <1>6 DEF LikelyNotTaken, Leave, excVars
  <2>2. Slot' = NoPc
    BY <2>1 DEF Slot
  <2>3. Flow!After(Flow!After(pc)) = After(After(pc))
    BY SameWords, WordsAreClosed DEF FlowInv, FlowTypes
  <2>4. QED
    BY <1>3, <2>1, <2>2, <2>3 DEF Flow!SkipSlot, Flow!Go, Flow!FlowNext, Slot
<1>7. ASSUME NEW k \in {"miss", "other"}, Fault(k, delaySlot)
      PROVE  Flow!FlowNext
  BY <1>1, <1>3, <1>7, FaultIsException DEF Flow!FlowNext
<1>8. QED
  BY <1>4, <1>5, <1>6, <1>7 DEF Operation, FpuFault

\* Through either engine, and through any alternation of both, a program sees the
\* control flow of a MIPS, provided that the interpreter meets no likely branch and
\* compiled code no unusable FPU in a handler or in a likely FPU branch.
\* (cpu/cpu.cpp handle_exception and branch_likely_addr64, cpu/cached_interp.cpp
\* step_one_core, cpu/jit/jit.cpp Dynarec::run)
THEOREM EnginesFollowMips ==
  ASSUME FpuFaultsAreSeen, "interp" \notin LikelyIn
  PROVE  CpuSpec => ImplementsMipsFlow
<1>1. CpuInit => FlowInv /\ Flow!FlowInit
  <2>1. CpuInit => Slot = NoPc
    BY Zenon DEF CpuInit, Slot
  <2>2. QED
    BY <2>1, FlowInvInit DEF CpuInit, Flow!FlowInit, Slot
<1>2. FlowInv /\ [CpuNext]_cpuVars => FlowInv'
  BY FlowInvKept
<1>3. FlowInv /\ [CpuNext]_cpuVars => [Flow!FlowNext]_(Flow!flowVars)
  <2> SUFFICES ASSUME FlowInv, [CpuNext]_cpuVars
               PROVE  Flow!FlowNext \/ Unseen
    BY DEF Unseen, Flow!flowVars, Slot
  <2>1. CASE DropAnnulled
    BY <2>1 DEF DropAnnulled, Unseen, Slot, pcVars, excVars
  <2>2. CASE DynaInterrupt
    <3>1. Slot = NoPc /\ Slot' = NoPc
      BY <2>2 DEF DynaInterrupt, Slot
    <3>2. QED
      BY <2>2, <3>1, RaiseIsException DEF DynaInterrupt, Flow!FlowNext
  <2>3. CASE EnterBlock
    BY <2>3 DEF EnterBlock, Unseen, Slot, pcVars, excVars
  <2>4. CASE UNCHANGED cpuVars
    BY <2>4 DEF cpuVars, Unseen, Slot
  <2>5. QED
    BY <2>1, <2>2, <2>3, <2>4, StepBeginFlows, FetchMissFlows, ExecuteOneFlows, OperationFlows DEF CpuNext
<1>4. QED
  BY <1>1, <1>2, <1>3, PTL DEF CpuSpec, ImplementsMipsFlow, Flow!FlowSpec

-----------------------------------------------------------------------------
\* The slot that was annulled lies behind, and no delay slot is under way.
SlotIsBehind ==
    skipped # NoPc =>
        /\ skipped \in PcWord /\ pc = After(skipped)
        /\ delaySlot => mode = "out" /\ annul
        /\ mode = "fetch" => ~prevDelaySlot
        /\ mode # "handler"

\* The types hold whatever the FPU does.
LEMMA TypesKept == FlowTypes /\ [CpuNext]_cpuVars => FlowTypes'
<1> SUFFICES ASSUME FlowTypes, [CpuNext]_cpuVars PROVE FlowTypes'
  OBVIOUS
<1>1. UNCHANGED blockVars => opAt' = opAt /\ left' = left
  BY DEF blockVars
<1>2. CASE StepBegin
  BY <1>1, <1>2, RaiseGoesToVector DEF StepBegin, FlowTypes, pcVars, excVars
<1>3. CASE FetchMiss
  BY <1>1, <1>3, RaiseGoesToVector DEF FetchMiss, FlowTypes
<1>4. ASSUME NEW inSlot, BranchTo(inSlot)
      PROVE  /\ pc' \in PcWord /\ nextPc' \in PcWord /\ epc' = epc /\ delaySlot' \in BOOLEAN
             /\ exl' = exl /\ annul' = annul
  BY <1>4 DEF BranchTo, FlowTypes, excVars
<1>5. ASSUME NEW engine, NEW inSlot, LikelyNotTaken(engine, inSlot)
      PROVE  /\ pc' \in PcWord /\ nextPc' \in PcWord /\ epc' = epc /\ delaySlot' \in BOOLEAN
             /\ exl' = exl /\ annul' \in BOOLEAN
  BY <1>5, WordsAreClosed DEF LikelyNotTaken, FlowTypes, excVars
<1>6. ASSUME NEW inSlot, Eret(inSlot)
      PROVE  /\ pc' \in PcWord /\ nextPc' \in PcWord /\ epc' = epc /\ delaySlot' \in BOOLEAN
             /\ exl' \in BOOLEAN /\ annul' = annul
  BY <1>6, WordsAreClosed DEF Eret, FlowTypes
<1>7. ASSUME NEW kind, NEW inSlot \in BOOLEAN, Fault(kind, inSlot)
      PROVE  /\ pc' \in PcWord /\ nextPc' \in PcWord /\ epc' \in PcWord /\ delaySlot' \in BOOLEAN
             /\ exl' \in BOOLEAN
  BY <1>7, RaiseGoesToVector DEF Fault, FlowTypes
<1>8. CASE ExecuteOne
  <2> DEFINE inSlot == mode = "fetch" /\ prevDelaySlot
  <2>1. mode' = "out" /\ prevDelaySlot' = prevDelaySlot
    BY <1>8 DEF ExecuteOne
  <2>2. CASE Plain
    BY <1>1, <1>8, <2>1, <2>2, PlainGoesOn DEF ExecuteOne, FlowTypes
  <2>3. CASE BranchTo(inSlot) \/ LikelyNotTaken("interp", inSlot) \/ Eret(inSlot)
    BY <1>1, <1>4, <1>5, <1>6, <1>8, <2>1, <2>3 DEF ExecuteOne, FlowTypes
  <2>4. ASSUME NEW k \in {"miss", "other"}, Fault(k, prevDelaySlot), UNCHANGED annul
        PROVE  FlowTypes'
    BY <1>1, <1>7, <1>8, <2>1, <2>4 DEF ExecuteOne, FlowTypes
  <2>5. QED
    BY <1>8, <2>2, <2>3, <2>4 DEF ExecuteOne, Likely
<1>9. CASE Operation
  <2>1. /\ prevDelaySlot' = delaySlot /\ mode' \in {"out", "block"}
        /\ opAt' \in PcWord /\ left' \in Int
    BY <1>9, WordsAreClosed DEF Operation, FpuFault, FlowTypes, Continue, Leave
  <2>2. CASE Plain
    BY <2>1, <2>2, PlainGoesOn DEF FlowTypes
  <2>3. CASE BranchTo(delaySlot) \/ LikelyNotTaken("jit", delaySlot)
    BY <1>4, <1>5, <2>1, <2>3 DEF FlowTypes
  <2>4. ASSUME NEW k \in {"miss", "other"}, Fault(k, delaySlot), annul' \in BOOLEAN
        PROVE  FlowTypes'
    BY <1>7, <2>1, <2>4 DEF FlowTypes
  <2>5. UNCHANGED annul \/ annul' = TRUE => annul' \in BOOLEAN
    BY DEF FlowTypes
  <2>6. QED
    BY <1>9, <2>2, <2>3, <2>4, <2>5 DEF Operation, FpuFault
<1>10. CASE DropAnnulled
  BY <1>10 DEF DropAnnulled, FlowTypes, pcVars, excVars, blockVars
<1>11. CASE DynaInterrupt
  BY <1>11, RaiseGoesToVector DEF DynaInterrupt, FlowTypes, blockVars
<1>12. CASE EnterBlock
  <2>1. left' \in Int
    BY <1>12 DEF EnterBlock
  <2>2. QED
    BY <1>12, <2>1 DEF EnterBlock, FlowTypes, pcVars, excVars
<1>13. CASE UNCHANGED cpuVars
  BY <1>13 DEF cpuVars, FlowTypes
<1>14. QED
  BY <1>2, <1>3, <1>8, <1>9, <1>10, <1>11, <1>12, <1>13 DEF CpuNext

\* A slot that was skipped stays the word before pc: it is not run.
LEMMA SlotStaysBehind ==
  ASSUME "interp" \notin LikelyIn, FlowTypes, SlotIsBehind, [CpuNext]_cpuVars
  PROVE  SlotIsBehind'
<1>1. CASE skipped' = NoPc
  BY <1>1 DEF SlotIsBehind
<1>2. CASE skipped' = skipped /\ pc' = pc /\ skipped # NoPc /\ ~Operation
  <2>1. After(skipped)' = After(skipped)
    BY <1>2 DEF After
  <2>2. CASE StepBegin
    BY <1>2, <2>1, <2>2 DEF StepBegin, SlotIsBehind, Raise
  <2>3. CASE DropAnnulled
    BY <1>2, <2>1, <2>3 DEF DropAnnulled, SlotIsBehind
  <2>4. CASE EnterBlock
    BY <1>2, <2>1, <2>4 DEF EnterBlock, SlotIsBehind
  <2>5. CASE UNCHANGED cpuVars
    BY <1>2, <2>1, <2>5 DEF cpuVars, SlotIsBehind
  <2>6. CASE FetchMiss \/ ExecuteOne \/ DynaInterrupt
    BY <1>2, <2>6 DEF FetchMiss, ExecuteOne, DynaInterrupt, Plain, BranchTo, Likely, LikelyNotTaken, Eret, Fault, Raise
  <2>7. QED
    BY <1>2, <2>2, <2>3, <2>4, <2>5, <2>6 DEF CpuNext
<1>3. CASE Operation /\ skipped' # NoPc
  <2>1. LikelyNotTaken("jit", delaySlot) /\ Leave
    BY <1>3 DEF Operation, FpuFault, Plain, BranchTo, Fault, Raise
  <2>2. QED
    BY <2>1 DEF LikelyNotTaken, Leave, SlotIsBehind, FlowTypes
<1>4. CASE ~Operation /\ skipped' # NoPc
  <2>1. skipped' = skipped /\ pc' = pc
    BY <1>4 DEF CpuNext, StepBegin, FetchMiss, ExecuteOne, DropAnnulled, DynaInterrupt, EnterBlock,
                Plain, BranchTo, Likely, LikelyNotTaken, Eret, Fault, Raise, cpuVars, pcVars
  <2>2. QED
    BY <1>2, <1>4, <2>1
<1>5. QED
  BY <1>1, <1>3, <1>4

\* In compiled code the slot of an untaken likely branch is not what an exception
\* returns to, whatever the dispatcher does in between. (cpu/cpu.cpp:110)
THEOREM CompiledLikelySkips ==
  ASSUME "interp" \notin LikelyIn, NumWords > 1
  PROVE  CpuSpec => AnnulledSlotStaysSkipped
<1>1. CpuInit => FlowTypes /\ SlotIsBehind
  BY FlowInvInit DEF FlowInv, CpuInit, SlotIsBehind
<1>2. FlowTypes /\ SlotIsBehind /\ [CpuNext]_cpuVars => FlowTypes' /\ SlotIsBehind'
  BY TypesKept, SlotStaysBehind
<1>3. ASSUME NEW w \in PcWord
      PROVE  After(w) # w
  BY <1>3 DEF PcWord, After
<1>4. FlowTypes /\ SlotIsBehind /\ [CpuNext]_cpuVars
      => [skipped # NoPc /\ exl' /\ ~exl => epc' # skipped]_cpuVars
  <2> SUFFICES ASSUME FlowTypes, SlotIsBehind, [CpuNext]_cpuVars, skipped # NoPc, exl', ~exl
               PROVE  epc' = pc
    BY <1>3 DEF SlotIsBehind
  <2>1. CASE Operation
    BY <2>1 DEF Operation, FpuFault, Fault, Raise, Plain, BranchTo, LikelyNotTaken, excVars, SlotIsBehind
  <2>2. CASE ExecuteOne
    BY <2>2 DEF ExecuteOne, Fault, Raise, Plain, BranchTo, Likely, LikelyNotTaken, Eret, excVars, SlotIsBehind
  <2>3. CASE FetchMiss
    BY <2>3 DEF FetchMiss, Raise, SlotIsBehind
  <2>4. CASE StepBegin \/ DynaInterrupt
    BY <2>4 DEF StepBegin, DynaInterrupt, Raise, excVars, SlotIsBehind
  <2>5. QED
    BY <2>1, <2>2, <2>3, <2>4 DEF CpuNext, DropAnnulled, EnterBlock, excVars, cpuVars
<1>5. QED
  BY <1>1, <1>2, <1>4, PTL DEF CpuSpec, AnnulledSlotStaysSkipped

-----------------------------------------------------------------------------
(***************************************************************************)
(* The floating-point unit.                                                *)
(***************************************************************************)
HIDE FlowAssumption
USE FpuAssumption

Double == [hi : FpuWord, lo : FpuWord]
FpuState == [fgr : [FpuRegister -> Double], c : BOOLEAN, rm : 0 .. 3, fr : BOOLEAN, cu1 : BOOLEAN,
             gpr : Double, mem : [{0, 1} -> FpuWord], exc : {"none", "cop1", "load", "store"}, next : {"on", "branch", "skip"}]

\* The register file, the control fields and memory have their types in every state.
FpuInv == fpu \in FpuState /\ fpuSteps \in Nat

\* Words are 0 .. MaxWord, an even number of them, and Middle is the largest positive one.
LEMMA MiddleIsHalf == Middle \in Nat /\ MaxWord = 2 * Middle + 1 /\ Middle >= 3
BY DEF Middle

\* A register and its pair are in the file, and with FR clear every double is in an even one.
LEMMA RegistersArePaired ==
  ASSUME NEW m \in FpuState, NEW r \in FpuRegister
  PROVE  /\ Even(r) \in FpuRegister /\ Even(r) % 2 = 0 /\ Paired(m, r) \in FpuRegister
         /\ ~m.fr => Paired(m, r) % 2 = 0
<1>1. Even(r) \in FpuRegister /\ Even(r) % 2 = 0
  BY DEF Even, FpuRegister
<1>2. QED
  BY <1>1 DEF Paired

\* What a step may leave of a state: with FR clear the odd registers stay.
Kept(m) == {x \in FpuState : ~m.fr => \A k \in FpuRegister : k % 2 = 1 => x.fgr[k] = m.fgr[k]}

\* The writes of cop1.cpp (set_fgr_word, set_fgr_word_arith, set_fgr_dword) keep the types
\* and, with FR clear, every odd register.
LEMMA WritesKeep ==
  ASSUME NEW m \in FpuState, NEW r \in FpuRegister, NEW w \in FpuWord, NEW d \in Double
  PROVE  /\ SetFgrWord(m, r, w) \in Kept(m)
         /\ SetFgrArith(m, r, w) \in Kept(m)
         /\ SetFgrDword(m, r, d) \in Kept(m)
<1>1. /\ Even(r) \in FpuRegister /\ Paired(m, r) \in FpuRegister /\ Even(r) % 2 = 0
      /\ ~m.fr => Paired(m, r) % 2 = 0
  BY RegistersArePaired
<1>2. ASSUME NEW k \in FpuRegister, NEW x \in Double, ~m.fr => k % 2 = 0
      PROVE  [m EXCEPT !.fgr[k] = x] \in Kept(m)
  <2>1. [m EXCEPT !.fgr[k] = x] \in FpuState
    BY DEF FpuState
  <2>2. ASSUME NEW j \in FpuRegister, j % 2 = 1, ~m.fr
        PROVE  [m EXCEPT !.fgr[k] = x].fgr[j] = m.fgr[j]
    BY <1>2, <2>2 DEF FpuState
  <2>3. QED
    BY <2>1, <2>2 DEF Kept
<1>3. ASSUME NEW k \in FpuRegister, ~m.fr => k % 2 = 0
      PROVE  [m EXCEPT !.fgr[k].hi = w] \in Kept(m) /\ [m EXCEPT !.fgr[k].lo = w] \in Kept(m)
  <2>1. m.fgr[k] \in Double
    BY DEF FpuState
  <2>2. [m.fgr[k] EXCEPT !.hi = w] \in Double /\ [m.fgr[k] EXCEPT !.lo = w] \in Double
    BY <2>1 DEF Double
  <2>3. QED
    BY <1>2, <1>3, <2>2
<1>4. SetFgrWord(m, r, w) \in Kept(m)
  <2>1. CASE ~m.fr /\ r % 2 = 1
    BY <1>1, <1>3, <2>1 DEF SetFgrWord
  <2>2. CASE ~(~m.fr /\ r % 2 = 1)
    <3>1. ~m.fr => r % 2 = 0
      BY <2>2 DEF FpuRegister
    <3>2. QED
      BY <1>3, <2>2, <3>1 DEF SetFgrWord
  <2>3. QED
    BY <2>1, <2>2
<1>5. QED
  BY <1>1, <1>2, <1>3, <1>4 DEF SetFgrArith, SetFgrDword

\* The reads of cop1.cpp return words and doublewords.
LEMMA ReadsAreWords ==
  ASSUME NEW m \in FpuState, NEW r \in FpuRegister
  PROVE  FgrWord(m, r) \in FpuWord /\ FgrArith(m, r) \in FpuWord /\ FgrDword(m, r) \in Double
<1>1. Even(r) \in FpuRegister /\ Paired(m, r) \in FpuRegister
  BY RegistersArePaired
<1>2. \A k \in FpuRegister : m.fgr[k] \in Double
  BY DEF FpuState
<1>3. QED
  BY <1>1, <1>2 DEF FgrWord, FgrArith, FgrDword, Double

\* A word read as signed and written back is the word; all but the quiet NaN are symmetrical.
LEMMA SignedWords ==
  ASSUME NEW w \in FpuWord
  PROVE  /\ Signed(w) \in -(Middle + 1) .. Middle
         /\ w # Quiet => Signed(w) \in -Middle .. Middle
         /\ WordOf(Signed(w)) = w
<1>1. Signed(w) \in -(Middle + 1) .. Middle /\ (w # Quiet => Signed(w) \in -Middle .. Middle)
  BY MiddleIsHalf DEF FpuWord, Signed, Quiet
<1>2. CASE w > Middle
  <2>1. Signed(w) = w - (MaxWord + 1)
    BY <1>2 DEF Signed
  <2>2. (w - (MaxWord + 1)) % (MaxWord + 1) = w
    BY DEF FpuWord
  <2>3. QED
    BY <1>1, <2>1, <2>2 DEF WordOf
<1>3. CASE w <= Middle
  BY <1>1, <1>3, MiddleIsHalf DEF FpuWord, Signed, WordOf
<1>4. QED
  BY <1>2, <1>3, MiddleIsHalf DEF FpuWord

\* Every integer is truncated to a word.
LEMMA WordOfIsWord ==
  ASSUME NEW i \in Int
  PROVE  WordOf(i) \in FpuWord
BY DEF WordOf, FpuWord

\* A number of the symmetrical range survives being stored as a word, and is no NaN.
LEMMA WordsSigned ==
  ASSUME NEW i \in -Middle .. Middle
  PROVE  WordOf(i) \in FpuWord /\ WordOf(i) # Quiet /\ Signed(WordOf(i)) = i
<1>1. CASE i >= 0
  <2>1. WordOf(i) = i
    BY <1>1, MiddleIsHalf DEF WordOf
  <2>2. QED
    BY <1>1, <2>1, MiddleIsHalf DEF FpuWord, Quiet, Signed
<1>2. CASE i < 0
  <2>1. WordOf(i) = i + MaxWord + 1
    <3>1. i + (MaxWord + 1) \in 0 .. MaxWord
      BY <1>2, MiddleIsHalf
    <3>2. (i + (MaxWord + 1)) % (MaxWord + 1) = i % (MaxWord + 1)
      BY MiddleIsHalf
    <3>3. QED
      BY <3>1, <3>2, MiddleIsHalf DEF WordOf
  <2>2. QED
    BY <1>2, <2>1, MiddleIsHalf DEF FpuWord, Quiet, Signed
<1>3. QED
  BY <1>1, <1>2, MiddleIsHalf

\* What an operand is read as, in either format.
LEMMA ValuesAreNumbers ==
  ASSUME NEW m \in FpuState, NEW r \in FpuRegister, NEW fmt
  PROVE  Value(m, fmt, r) \in Int
<1>1. FgrArith(m, r) \in FpuWord /\ FgrDword(m, r) \in Double /\ NaN \in Int
  BY ReadsAreWords DEF NaN
<1>2. \A w \in FpuWord : Signed(w) \in Int
  BY SignedWords, MiddleIsHalf
<1>3. QED
  BY <1>1, <1>2 DEF Value, AsSingle, AsDouble, Double

\* What a result is written as, in either format.
LEMMA OfValuesAreWords ==
  ASSUME NEW v \in Int
  PROVE  OfSingle(v) \in FpuWord /\ OfDouble(v) \in Double /\ Quiet \in FpuWord
<1>1. Quiet \in FpuWord
  BY MiddleIsHalf DEF Quiet, FpuWord
<1>2. v % 2 \in FpuWord /\ 0 \in FpuWord
  BY DEF FpuWord
<1>3. WordOf(v \div 2) \in FpuWord /\ WordOf(v \div 2 + 1) \in FpuWord
  BY WordOfIsWord
<1>4. QED
  BY <1>1, <1>2, <1>3 DEF OfSingle, OfDouble, Dword, Double

\* Rounding leaves an integer, whatever the mode.
LEMMA RoundedIsNumber ==
  ASSUME NEW v \in Int, NEW rounding
  PROVE  RoundedBy(rounding, v) \in Int
BY DEF RoundedBy, Trunc, Ceil, Floor, NearbyInt

\* op_cop1_arith writes the destination or the condition, in the pair of the destination.
LEMMA ArithmeticKeeps ==
  ASSUME NEW m \in FpuState, NEW i \in FpuInstruction
  PROVE  Cop1Arith(m, i) \subseteq Kept(m)
<1> DEFINE x == IF i.fmt = "W" THEN 4 * Signed(FgrArith(m, i.fs)) ELSE Value(m, i.fmt, i.fs)
<1>1. i.fd \in FpuRegister /\ i.fs \in FpuRegister /\ i.ft \in FpuRegister
  BY DEF FpuInstruction
<1>2. FgrArith(m, i.fs) \in FpuWord /\ FgrDword(m, i.fs) \in Double
  BY <1>1, ReadsAreWords
<1>3. x \in Int /\ Absolute(x) \in Int /\ Negated(x) \in Int
  <2>1. Signed(FgrArith(m, i.fs)) \in Int
    BY <1>2, SignedWords, MiddleIsHalf
  <2>2. x \in Int
    BY <1>1, <2>1, ValuesAreNumbers
  <2>3. QED
    BY <2>2 DEF Absolute, Negated, NaN
<1>4. ASSUME NEW fmt PROVE OpenResult(m, fmt, i.fd) \subseteq Kept(m)
  <2>1. \A w \in FpuSample : w \in FpuWord /\ Dword(w, 0) \in Double
    BY DEF Double, Dword, FpuWord
  <2>2. QED
    BY <1>1, <1>2, <2>1, WritesKeep DEF OpenResult
<1>5. ASSUME NEW y \in Int, NEW fmt PROVE Result(m, fmt, i.fd, y) \subseteq Kept(m)
  <2>1. SetValue(m, fmt, i.fd, y) \in Kept(m)
    BY <1>1, OfValuesAreWords, WritesKeep DEF SetValue
  <2>2. QED
    BY <1>4, <2>1 DEF Result
<1>6. Compare1(m, i) \in Kept(m)
  <2>1. \A cond, a, b : Holds(cond, a, b) \in BOOLEAN /\ HoldsDouble(cond, a, b) \in BOOLEAN
    BY Zenon DEF Holds, HoldsDouble
  <2>2. ASSUME NEW b \in BOOLEAN PROVE [m EXCEPT !.c = b] \in Kept(m)
    BY DEF Kept, FpuState
  <2>3. QED
    BY <2>1, <2>2 DEF Compare1
<1>7. \A w \in Converted(ModeOf(i.op, m.rm), x) : SetFgrArith(m, i.fd, w) \in Kept(m)
  <2>1. Converted(ModeOf(i.op, m.rm), x) \subseteq FpuWord
    BY <1>3, RoundedIsNumber, WordOfIsWord DEF Converted
  <2>2. QED
    BY <1>1, <1>2, <2>1, WritesKeep
<1>8. Moved(m, i) \in Kept(m)
  BY <1>1, <1>2, WritesKeep DEF Moved
<1>9. QED
  <2>1. OpenResult(m, i.fmt, i.fd) \subseteq Kept(m)
    BY <1>4
  <2>2. /\ Result(m, i.fmt, i.fd, Absolute(x)) \subseteq Kept(m)
        /\ Result(m, i.fmt, i.fd, Negated(x)) \subseteq Kept(m)
        /\ Result(m, "S", i.fd, x) \subseteq Kept(m) /\ Result(m, "D", i.fd, x) \subseteq Kept(m)
    BY <1>3, <1>5
  <2> HIDE DEF x
  <2>3. QED
    BY <1>6, <1>7, <1>8, <2>1, <2>2 DEF Cop1Arith, x

\* Every instruction of the FPU, its exceptions included, keeps the types and, with FR clear,
\* the odd registers.
LEMMA StepKeepsRegisters ==
  ASSUME NEW m \in FpuState, NEW i \in FpuInstruction, NEW mapped \in BOOLEAN
  PROVE  FpuStep(m, i, mapped) \subseteq Kept(m)
<1>1. i.fd \in FpuRegister /\ i.fs \in FpuRegister /\ i.ft \in FpuRegister /\ m.gpr \in Double
  BY DEF FpuInstruction, FpuState
<1>2. /\ \A g \in Double : [m EXCEPT !.gpr = g] \in Kept(m)
      /\ \A e \in {"none", "cop1", "load", "store"} : [m EXCEPT !.exc = e] \in Kept(m)
      /\ \A e \in {"on", "branch", "skip"} : [m EXCEPT !.next = e] \in Kept(m)
      /\ \A n \in 0 .. 3, b \in BOOLEAN : [m EXCEPT !.rm = n, !.c = b] \in Kept(m)
      /\ \A n \in [{0, 1} -> FpuWord] : [m EXCEPT !.mem = n] \in Kept(m)
  BY DEF Kept, FpuState
<1>3. Moves(m, i) \in Kept(m)
  <2>1. FgrWord(m, i.fs) \in FpuWord /\ FgrDword(m, i.fs) \in Double
    BY <1>1, ReadsAreWords
  <2>2. Dword(IF Signed(FgrWord(m, i.fs)) < 0 THEN MaxWord ELSE 0, FgrWord(m, i.fs)) \in Double
    BY <2>1 DEF Dword, Double, FpuWord
  <2>3. Dword(0, m.rm + (IF m.c THEN 4 ELSE 0)) \in Double
    BY DEF Dword, Double, FpuWord, FpuState
  <2>4. m.gpr.lo \in FpuWord /\ m.gpr.lo % 4 \in 0 .. 3
    BY <1>1 DEF Double, FpuWord
  <2>5. QED
    BY <1>1, <1>2, <2>1, <2>2, <2>3, <2>4, WritesKeep DEF Moves
<1>4. LoadStore(m, i, mapped) \in Kept(m)
  <2>1. FgrWord(m, i.ft) \in FpuWord /\ FgrDword(m, i.ft) \in Double
    BY <1>1, ReadsAreWords
  <2>2. m.mem \in [{0, 1} -> FpuWord] /\ i.fd % 2 \in {0, 1}
    BY <1>1 DEF FpuState, FpuRegister
  <2>3. m.mem[0] \in FpuWord /\ m.mem[1] \in FpuWord /\ m.mem[i.fd % 2] \in FpuWord
    BY <2>2
  <2>4. Dword(m.mem[0], m.mem[1]) \in Double
    BY <2>3 DEF Dword, Double
  <2>5. [m EXCEPT !.mem[i.fd % 2] = FgrWord(m, i.ft)] \in Kept(m)
    <3>1. [m.mem EXCEPT ![i.fd % 2] = FgrWord(m, i.ft)] \in [{0, 1} -> FpuWord]
      BY <2>1, <2>2
    <3>2. QED
      BY <1>2, <3>1
  <2>6. [a \in {0, 1} |-> IF a = 0 THEN FgrDword(m, i.ft).hi ELSE FgrDword(m, i.ft).lo] \in [{0, 1} -> FpuWord]
    BY <2>1 DEF Double
  <2>7. SetFgrWord(m, i.ft, m.mem[i.fd % 2]) \in Kept(m)
    BY <1>1, <2>1, <2>3, WritesKeep
  <2>8. SetFgrDword(m, i.ft, Dword(m.mem[0], m.mem[1])) \in Kept(m)
    BY <1>1, <2>3, <2>4, WritesKeep
  <2>9. QED
    BY <1>2, <2>5, <2>6, <2>7, <2>8 DEF LoadStore
<1>5. Bc1(m, i) \in Kept(m)
  <2>1. \A x \in {"branch", "skip", "on"} : [m EXCEPT !.next = x] \in Kept(m)
    BY <1>2
  <2>2. QED
    BY <2>1 DEF Bc1
<1>6. [m EXCEPT !.exc = "cop1"] \in Kept(m)
  BY <1>2
<1>7. Cop1Arith(m, i) \subseteq Kept(m)
  BY ArithmeticKeeps
<1>8. QED
  BY <1>3, <1>4, <1>5, <1>6, <1>7 DEF FpuStep

\* The types hold after reset.
LEMMA FpuInvInit == FpuInit => FpuInv
<1> SUFFICES ASSUME FpuInit PROVE FpuInv
  OBVIOUS
<1>1. PICK image \in FpuImage, full \in BOOLEAN, w \in FpuSample :
         fpu = [fgr |-> [r \in FpuRegister |-> Dword(0, 0)], c |-> FALSE, rm |-> 0,
                fr |-> full, cu1 |-> TRUE, gpr |-> Dword(w, w),
                mem |-> [a \in {0, 1} |-> image[a + 1]], exc |-> "none", next |-> "on"]
  BY DEF FpuInit
<1>2. Dword(0, 0) \in Double /\ Dword(w, w) \in Double
  BY DEF Dword, Double, FpuWord
<1>3. [a \in {0, 1} |-> image[a + 1]] \in [{0, 1} -> FpuWord]
  OBVIOUS
<1>4. fpu \in FpuState
  BY <1>1, <1>2, <1>3 DEF FpuState
<1>5. QED
  BY <1>4 DEF FpuInv, FpuInit

\* Instructions and writes of Status keep them.
LEMMA FpuInvKept == FpuInv /\ [FpuNext]_fpuVars => FpuInv'
<1> SUFFICES ASSUME FpuInv, [FpuNext]_fpuVars PROVE FpuInv'
  OBVIOUS
<1>1. CASE Operate
  <2>1. PICK i \in FpuProgram, mapped \in BOOLEAN :
           fpu' \in FpuStep([fpu EXCEPT !.exc = "none", !.next = "on"], i, mapped)
    BY <1>1 DEF Operate
  <2>2. [fpu EXCEPT !.exc = "none", !.next = "on"] \in FpuState /\ i \in FpuInstruction
    BY DEF FpuInv, FpuState
  <2>3. fpu' \in FpuState
    BY <2>1, <2>2, StepKeepsRegisters DEF Kept
  <2>4. QED
    BY <1>1, <2>3 DEF Operate, FpuInv
<1>2. CASE WriteStatus
  <2>1. PICK full \in BOOLEAN, usable \in BOOLEAN : fpu' = [fpu EXCEPT !.fr = full, !.cu1 = usable]
    BY <1>2 DEF WriteStatus
  <2>2. fpu' \in FpuState
    BY <2>1 DEF FpuInv, FpuState
  <2>3. QED
    BY <1>2, <2>2 DEF WriteStatus, FpuInv
<1>3. CASE UNCHANGED fpuVars
  BY <1>3 DEF fpuVars, FpuInv
<1>4. QED
  BY <1>1, <1>2, <1>3 DEF FpuNext

\* For any number of registers, width of words and program: with FR clear two word accesses are
\* one doubleword access, and no instruction reaches the odd registers, which a thread with FR
\* set fills (get_fgr_word, set_fgr_word, set_fgr_dword of cpu/cop1.cpp; LWC1, LDC1, SWC1, SDC1).
THEOREM HalvesShareRegisters == FpuSpec => []HalvesMakeDoubles
<1>1. FpuInv => HalvesMakeDoubles
  <2> SUFFICES ASSUME FpuInv PROVE HalvesMakeDoubles
    OBVIOUS
  <2> DEFINE m == [fpu EXCEPT !.fr = FALSE, !.cu1 = TRUE]
             on(op, r, a) == [op |-> op, fmt |-> "W", fd |-> a, fs |-> r, ft |-> r, cond |-> 0]
             run(x, op, r, a) == LoadStore(x, on(op, r, a), TRUE)
  <2>1. m \in FpuState /\ m.fr = FALSE /\ m.fgr = fpu.fgr /\ m.mem = fpu.mem
    BY DEF FpuInv, FpuState
  <2>2. ASSUME NEW r \in 0 .. FpuRegs - 1, r % 2 = 0
        PROVE  /\ run(run(m, "LWC1", r + 1, 0), "LWC1", r, 1) = run(m, "LDC1", r, 0)
               /\ run(run(m, "SWC1", r + 1, 0), "SWC1", r, 1) = run(m, "SDC1", r, 0)
               /\ \A i \in FpuProgram : \A x \in FpuStep(m, i, TRUE) : x.fgr[r + 1] = fpu.fgr[r + 1]
    <3>1. /\ r + 1 \in FpuRegister /\ r \in FpuRegister /\ (r + 1) % 2 = 1
          /\ Even(r + 1) = r /\ Even(r) = r /\ 0 % 2 = 0 /\ 1 % 2 = 1
      BY <2>2 DEF FpuRegister, Even
    <3>2. /\ m.fgr[r] \in Double /\ m.fgr \in [FpuRegister -> Double]
          /\ m.mem \in [{0, 1} -> FpuWord]
      BY <2>1, <3>1 DEF FpuState
    <3>3. run(run(m, "LWC1", r + 1, 0), "LWC1", r, 1) = run(m, "LDC1", r, 0)
      <4> DEFINE upper == [m.fgr[r] EXCEPT !.hi = m.mem[0]]
                 n == [m EXCEPT !.fgr = [m.fgr EXCEPT ![r] = upper]]
      <4>1. run(m, "LWC1", r + 1, 0) = n
        BY <2>1, <3>1 DEF LoadStore, SetFgrWord
      <4>2. upper \in Double /\ upper.hi = m.mem[0]
        BY <3>2 DEF Double
      <4>3. n.fr = FALSE /\ n.mem = m.mem /\ n.fgr = [m.fgr EXCEPT ![r] = upper] /\ n.fgr[r] = upper
        BY <2>1, <3>1, <3>2 DEF FpuState
      <4>4. [upper EXCEPT !.lo = m.mem[1]] = Dword(m.mem[0], m.mem[1])
        <5> DEFINE both == [upper EXCEPT !.lo = m.mem[1]]
        <5>1. both \in Double /\ both.hi = m.mem[0] /\ both.lo = m.mem[1]
          BY <3>2, <4>2 DEF Double
        <5> HIDE DEF both
        <5>2. both = [hi |-> both.hi, lo |-> both.lo]
          BY <5>1 DEF Double
        <5>3. both = Dword(m.mem[0], m.mem[1])
          BY <5>1, <5>2 DEF Dword
        <5>4. QED
          BY <5>3 DEF both
      <4> HIDE DEF upper
      <4>5. run(n, "LWC1", r, 1) = [n EXCEPT !.fgr = [n.fgr EXCEPT ![r] = Dword(m.mem[0], m.mem[1])]]
        <5>1. run(n, "LWC1", r, 1) = SetFgrWord(n, r, n.mem[1])
          BY <3>1 DEF LoadStore
        <5>2. r % 2 # 1 /\ [n.fgr[r] EXCEPT !.lo = n.mem[1]] = Dword(m.mem[0], m.mem[1])
          BY <2>2, <4>3, <4>4
        <5> HIDE DEF n
        <5>3. QED
          BY <5>1, <5>2 DEF SetFgrWord
      <4>6. [n.fgr EXCEPT ![r] = Dword(m.mem[0], m.mem[1])] = [m.fgr EXCEPT ![r] = Dword(m.mem[0], m.mem[1])]
        BY <3>1, <3>2, <4>3
      <4>7. run(m, "LDC1", r, 0) = [m EXCEPT !.fgr = [m.fgr EXCEPT ![r] = Dword(m.mem[0], m.mem[1])]]
        BY <2>1, <3>1 DEF LoadStore, SetFgrDword, Paired
      <4>8. \A f : [n EXCEPT !.fgr = f] = [m EXCEPT !.fgr = f]
        BY <2>1 DEF FpuState
      <4>9. QED
        BY <4>1, <4>5, <4>6, <4>7, <4>8
    <3>4. run(run(m, "SWC1", r + 1, 0), "SWC1", r, 1) = run(m, "SDC1", r, 0)
      <4> DEFINE n == [m EXCEPT !.mem = [m.mem EXCEPT ![0] = m.fgr[r].hi]]
                 words == [a \in {0, 1} |-> IF a = 0 THEN m.fgr[r].hi ELSE m.fgr[r].lo]
      <4>1. run(m, "SWC1", r + 1, 0) = n
        BY <2>1, <3>1 DEF LoadStore, FgrWord
      <4>2. n.fr = FALSE /\ n.fgr = m.fgr /\ n.mem = [m.mem EXCEPT ![0] = m.fgr[r].hi]
        BY <2>1 DEF FpuState
      <4>3. run(n, "SWC1", r, 1) = [n EXCEPT !.mem = [n.mem EXCEPT ![1] = m.fgr[r].lo]]
        <5>1. run(n, "SWC1", r, 1) = [n EXCEPT !.mem[1] = FgrWord(n, r)]
          BY <3>1 DEF LoadStore
        <5>2. r % 2 # 1 /\ FgrWord(n, r) = m.fgr[r].lo
          BY <2>2, <4>2 DEF FgrWord
        <5> HIDE DEF n
        <5>3. QED
          BY <5>1, <5>2
      <4>4. run(m, "SDC1", r, 0) = [m EXCEPT !.mem = words]
        BY <2>1, <3>1 DEF LoadStore, FgrDword, Paired
      <4>5. [n.mem EXCEPT ![1] = m.fgr[r].lo] = words
        BY <3>2, <4>2
      <4>6. \A f : [n EXCEPT !.mem = f] = [m EXCEPT !.mem = f]
        BY <2>1 DEF FpuState
      <4>7. QED
        BY <4>1, <4>3, <4>4, <4>5, <4>6
    <3>5. \A i \in FpuProgram : \A x \in FpuStep(m, i, TRUE) : x.fgr[r + 1] = fpu.fgr[r + 1]
      <4> SUFFICES ASSUME NEW i \in FpuProgram, NEW x \in FpuStep(m, i, TRUE)
                   PROVE  x.fgr[r + 1] = fpu.fgr[r + 1]
        OBVIOUS
      <4>1. i \in FpuInstruction
        OBVIOUS
      <4>2. x \in Kept(m)
        BY <2>1, <4>1, StepKeepsRegisters
      <4>3. QED
        BY <2>1, <3>1, <4>2 DEF Kept
    <3>6. QED
      BY <3>3, <3>4, <3>5
  <2>3. QED
    BY <2>2 DEF HalvesMakeDoubles
<1>2. QED
  BY <1>1, FpuInvInit, FpuInvKept, PTL DEF FpuSpec

\* The double that CVT.D makes of a single has the value of the single, NaN included.
LEMMA WidenedValue ==
  ASSUME NEW w \in FpuWord
  PROVE  /\ AsSingle(w) \in Int /\ Fits(AsSingle(w)) /\ OfDouble(AsSingle(w)) \in Double
         /\ AsDouble(OfDouble(AsSingle(w))) = AsSingle(w)
<1>1. NaN \in Int /\ NaN > 2 * Middle
  BY MiddleIsHalf DEF NaN
<1>2. CASE w = Quiet
  <2>1. AsSingle(w) = NaN
    BY <1>2 DEF AsSingle
  <2>2. OfDouble(NaN) \in Double /\ OfDouble(NaN) = Dword(Quiet, 0)
    BY <1>1, OfValuesAreWords DEF OfDouble
  <2>3. AsDouble(Dword(Quiet, 0)) = NaN
    BY DEF AsDouble, Dword
  <2>4. QED
    BY <1>1, <2>1, <2>2, <2>3 DEF Fits
<1>3. CASE w # Quiet
  <2>1. PICK s \in -Middle .. Middle : s = Signed(w)
    BY <1>3, SignedWords
  <2>2. AsSingle(w) = 2 * s
    BY <1>3, <2>1 DEF AsSingle
  <2>3. 2 * s \in -2 * Middle .. 2 * Middle /\ (2 * s) \div 2 = s /\ (2 * s) % 2 = 0 /\ 2 * s # NaN
    BY <1>1, MiddleIsHalf
  <2>4. OfDouble(2 * s) = Dword(WordOf(s), 0)
    BY <2>3 DEF OfDouble
  <2>5. WordOf(s) # Quiet /\ Signed(WordOf(s)) = s
    BY WordsSigned
  <2>6. AsDouble(Dword(WordOf(s), 0)) = 2 * s
    BY <2>5, MiddleIsHalf DEF AsDouble, Dword
  <2>7. QED
    BY <2>2, <2>3, <2>4, <2>6, OfValuesAreWords DEF Fits
<1>4. QED
  BY <1>2, <1>3

\* CVT.D of the single in an even register puts the double with its value there.
LEMMA WidensInPlace ==
  ASSUME NEW m \in FpuState, NEW r \in FpuRegister, r % 2 = 0, NEW i \in FpuInstruction,
         i.op = "CVT.D", i.fmt = "S", i.fd = r, i.fs = r
  PROVE  LET y == SetFgrDword(m, r, OfDouble(AsSingle(m.fgr[r].lo))) IN
         /\ Cop1Arith(m, i) = {y} /\ y \in FpuState /\ y.fr = m.fr /\ y.rm = m.rm
         /\ y.fgr = [m.fgr EXCEPT ![r] = OfDouble(AsSingle(m.fgr[r].lo))]
         /\ Value(y, "D", r) = Value(m, "S", r)
<1> DEFINE d == OfDouble(AsSingle(m.fgr[r].lo))
           y == SetFgrDword(m, r, d)
<1>1. Even(r) = r /\ Paired(m, r) = r
  BY DEF Even, Paired, FpuRegister
<1>2. m.fgr \in [FpuRegister -> Double] /\ m.fgr[r].lo \in FpuWord
  BY DEF FpuState, Double
<1>3. Value(m, "S", r) = AsSingle(m.fgr[r].lo)
  BY <1>1 DEF Value, FgrArith
<1>4. Fits(AsSingle(m.fgr[r].lo)) /\ d \in Double /\ AsDouble(d) = AsSingle(m.fgr[r].lo)
  BY <1>2, WidenedValue
<1> HIDE DEF d
<1>5. Cop1Arith(m, i) = Result(m, "D", r, Value(m, "S", r))
  BY DEF Cop1Arith, OpenOps
<1>6. Result(m, "D", r, Value(m, "S", r)) = {y}
  BY <1>3, <1>4 DEF Result, SetValue, d
<1>7. y = [m EXCEPT !.fgr = [m.fgr EXCEPT ![r] = d]]
  BY <1>1 DEF SetFgrDword
<1>8. y \in FpuState /\ y.fr = m.fr /\ y.rm = m.rm /\ y.fgr = [m.fgr EXCEPT ![r] = d]
  BY <1>2, <1>4, <1>7 DEF FpuState
<1>9. Value(y, "D", r) = AsDouble(d)
  <2>1. Paired(y, r) = r
    BY <1>1, <1>8 DEF Paired
  <2>2. y.fgr[r] = d
    BY <1>2, <1>8
  <2> HIDE DEF y
  <2>3. QED
    BY <2>1, <2>2 DEF Value, FgrDword
<1>10. QED
  BY <1>3, <1>4, <1>5, <1>6, <1>8, <1>9 DEF d

\* The words that a conversion to an integer may leave in register 0 depend on the value and on
\* the mode alone, in either format.
LEMMA WordsConverted ==
  ASSUME NEW m \in FpuState, NEW i \in FpuInstruction, i.op \in ToWordOps, i.fmt \in {"S", "D"}, i.fd = 0, i.fs = 0
  PROVE  {FgrArith(y, 0) : y \in Cop1Arith(m, i)} = Converted(ModeOf(i.op, m.rm), Value(m, i.fmt, 0))
<1> DEFINE W == Converted(ModeOf(i.op, m.rm), Value(m, i.fmt, 0))
<1>1. 0 \in FpuRegister
  BY DEF FpuRegister
<1>2. Cop1Arith(m, i) = {SetFgrArith(m, 0, w) : w \in W}
  <2> HIDE DEF W
  <2>1. i.op # "C" /\ i.op \notin OpenOps /\ i.op \notin {"MOV", "ABS", "NEG", "CVT.S", "CVT.D"} /\ i.fmt # "W"
    BY DEF ToWordOps, OpenOps
  <2>2. QED
    BY <2>1 DEF Cop1Arith, W
<1>3. ASSUME NEW w
      PROVE  FgrArith(SetFgrArith(m, 0, w), 0) = w
  <2> DEFINE y == SetFgrArith(m, 0, w)
  <2>1. Paired(m, 0) = 0
    BY DEF Paired, Even
  <2>2. m.fgr \in [FpuRegister -> Double]
    BY DEF FpuState
  <2>3. y = [m EXCEPT !.fgr = [m.fgr EXCEPT ![0] = [m.fgr[0] EXCEPT !.lo = w]]]
    BY <2>1 DEF SetFgrArith
  <2>4. y.fr = m.fr /\ y.fgr = [m.fgr EXCEPT ![0] = [m.fgr[0] EXCEPT !.lo = w]]
    BY <2>3 DEF FpuState
  <2>5. y.fgr[0] = [m.fgr[0] EXCEPT !.lo = w] /\ m.fgr[0] \in Double
    BY <1>1, <2>2, <2>4
  <2>6. y.fgr[0].lo = w
    BY <2>5 DEF Double
  <2> HIDE DEF y
  <2>7. Paired(y, 0) = 0
    BY DEF Paired, Even
  <2>8. QED
    BY <2>6, <2>7 DEF FgrArith, y
<1> HIDE DEF W
<1>4. QED
  BY <1>2, <1>3 DEF W

\* The compare of singles and the compare of doubles, written out separately, are one.
LEMMA ComparesAgree ==
  ASSUME NEW cond, NEW a, NEW b
  PROVE  Holds(cond, a, b) = HoldsDouble(cond, a, b)
BY DEF Holds, HoldsDouble

\* For any registers and words: a single compares and rounds as the double made of it
\* (evaluate_c_cond_s and the written-out compare of doubles, ROUND, TRUNC, CEIL, FLOOR and CVT.W
\* of both formats in cpu/fpu_instruction_impl.cpp), and CVT.W rounds as FCR31 says.
THEOREM SinglesAreDoubles == FpuSpec => []FormatsAgree
<1>1. FpuInv => FormatsAgree
  <2> SUFFICES ASSUME FpuInv PROVE FormatsAgree
    OBVIOUS
  <2> DEFINE m == [fpu EXCEPT !.cu1 = TRUE]
             i(op, fmt, d, s, t, k) == [op |-> op, fmt |-> fmt, fd |-> d, fs |-> s, ft |-> t, cond |-> k]
             wide(x, r) == CHOOSE y \in Cop1Arith(x, i("CVT.D", "S", r, r, r, 0)) : TRUE
             both == wide(wide(m, 0), 2)
             words(x, op, fmt) == {FgrArith(y, 0) : y \in Cop1Arith(x, i(op, fmt, 0, 0, 0, 0))}
  <2>1. m \in FpuState
    BY DEF FpuInv, FpuState
  <2>2. 0 \in FpuRegister /\ 2 \in FpuRegister /\ 0 % 2 = 0 /\ 2 % 2 = 0
    BY DEF FpuRegister
  <2>3. ASSUME NEW x \in FpuState, NEW r \in {0, 2}
        PROVE  /\ wide(x, r) \in FpuState /\ wide(x, r).fr = x.fr /\ wide(x, r).rm = x.rm
               /\ \A k \in FpuRegister \ {r} : wide(x, r).fgr[k] = x.fgr[k]
               /\ Value(wide(x, r), "D", r) = Value(x, "S", r)
    <3> DEFINE j == i("CVT.D", "S", r, r, r, 0)
               y == SetFgrDword(x, r, OfDouble(AsSingle(x.fgr[r].lo)))
    <3>1. j \in FpuInstruction /\ j.op = "CVT.D" /\ j.fmt = "S" /\ j.fd = r /\ j.fs = r
      BY <2>2 DEF FpuInstruction
    <3> HIDE DEF j
    <3>2. /\ Cop1Arith(x, j) = {y} /\ y \in FpuState /\ y.fr = x.fr /\ y.rm = x.rm
          /\ y.fgr = [x.fgr EXCEPT ![r] = OfDouble(AsSingle(x.fgr[r].lo))]
          /\ Value(y, "D", r) = Value(x, "S", r)
      BY <2>2, <3>1, WidensInPlace
    <3>3. wide(x, r) = y
      BY <3>2 DEF j
    <3>4. \A k \in FpuRegister \ {r} : y.fgr[k] = x.fgr[k]
      <4>1. x.fgr \in [FpuRegister -> Double]
        BY DEF FpuState
      <4> HIDE DEF y
      <4>2. QED
        BY <3>2, <4>1
    <3> HIDE DEF y, wide
    <3>5. QED
      BY <3>2, <3>3, <3>4
  <2> HIDE DEF m
  <2>4. \A k \in 0 .. 7 : Compare1(m, i("C", "S", 0, 0, 2, k)).c = Compare1(both, i("C", "D", 0, 0, 2, k)).c
    <3> DEFINE n == wide(m, 0)
    <3>1. /\ n \in FpuState /\ n.fr = m.fr /\ Value(n, "D", 0) = Value(m, "S", 0)
          /\ n.fgr[2] = m.fgr[2]
      BY <2>1, <2>2, <2>3
    <3>2. /\ both \in FpuState /\ both.fr = n.fr /\ Value(both, "D", 2) = Value(n, "S", 2)
          /\ both.fgr[0] = n.fgr[0]
      <4> HIDE DEF n, wide
      <4>1. /\ wide(n, 2) \in FpuState /\ wide(n, 2).fr = n.fr /\ Value(wide(n, 2), "D", 2) = Value(n, "S", 2)
            /\ wide(n, 2).fgr[0] = n.fgr[0]
        BY <2>2, <2>3, <3>1
      <4>2. QED
        BY <4>1 DEF n
    <3> HIDE DEF n, both, wide
    <3>3. ASSUME NEW x, NEW r \in {0, 2} PROVE Paired(x, r) = r
      BY DEF Paired, Even
    <3>4. Value(n, "S", 2) = Value(m, "S", 2) /\ Value(both, "D", 0) = Value(n, "D", 0)
      BY <3>1, <3>2, <3>3 DEF Value, FgrArith, FgrDword
    <3> SUFFICES ASSUME NEW k \in 0 .. 7
                 PROVE  Compare1(m, i("C", "S", 0, 0, 2, k)).c = Compare1(both, i("C", "D", 0, 0, 2, k)).c
      OBVIOUS
    <3>5. Compare1(m, i("C", "S", 0, 0, 2, k)).c = Holds(k, Value(m, "S", 0), Value(m, "S", 2))
      BY <2>1 DEF Compare1, FpuState
    <3>6. Compare1(both, i("C", "D", 0, 0, 2, k)).c = HoldsDouble(k, Value(both, "D", 0), Value(both, "D", 2))
      BY <3>2 DEF Compare1, FpuState
    <3>7. QED
      BY <3>1, <3>2, <3>4, <3>5, <3>6, ComparesAgree
  <2>5. ASSUME NEW x \in FpuState, NEW op \in ToWordOps, NEW fmt \in {"S", "D"}
        PROVE  words(x, op, fmt) = Converted(ModeOf(op, x.rm), Value(x, fmt, 0))
    <3> DEFINE j == i(op, fmt, 0, 0, 0, 0)
    <3>1. j \in FpuInstruction /\ j.op = op /\ j.fmt = fmt /\ j.fd = 0 /\ j.fs = 0
      BY <2>2 DEF FpuInstruction
    <3> HIDE DEF j
    <3>2. {FgrArith(y, 0) : y \in Cop1Arith(x, j)} = Converted(ModeOf(j.op, x.rm), Value(x, j.fmt, 0))
      BY <3>1, WordsConverted
    <3>3. QED
      BY <3>1, <3>2 DEF j
  <2>6. \A op \in ToWordOps : words(m, op, "S") = words(wide(m, 0), op, "D")
    <3> SUFFICES ASSUME NEW op \in ToWordOps PROVE words(m, op, "S") = words(wide(m, 0), op, "D")
      OBVIOUS
    <3>1. wide(m, 0) \in FpuState /\ wide(m, 0).rm = m.rm /\ Value(wide(m, 0), "D", 0) = Value(m, "S", 0)
      BY <2>1, <2>3
    <3> HIDE DEF words, wide
    <3>2. QED
      BY <2>1, <2>5, <3>1
  <2>7. ASSUME NEW op \in ToWordOps \ {"CVT.W"}, NEW rounding \in 0 .. 3, ModeOf(op, rounding) = rounding,
                NEW fmt \in {"S", "D"}
        PROVE  words(m, op, fmt) = words([m EXCEPT !.rm = rounding], "CVT.W", fmt)
    <3> DEFINE n == [m EXCEPT !.rm = rounding]
    <3>1. n \in FpuState /\ n.rm = rounding /\ n.fgr = m.fgr /\ n.fr = m.fr
      BY <2>1 DEF FpuState
    <3> HIDE DEF n
    <3>2. Value(n, fmt, 0) = Value(m, fmt, 0)
      <4>1. Paired(n, 0) = Paired(m, 0)
        BY <3>1 DEF Paired
      <4>2. QED
        BY <3>1, <4>1 DEF Value, FgrArith, FgrDword
    <3>3. ModeOf(op, m.rm) = rounding /\ ModeOf("CVT.W", n.rm) = rounding
      BY <2>7, <3>1 DEF ModeOf, ToWordOps
    <3>4. "CVT.W" \in ToWordOps
      BY DEF ToWordOps
    <3> HIDE DEF words
    <3>5. words(m, op, fmt) = words(n, "CVT.W", fmt)
      BY <2>1, <2>5, <3>1, <3>2, <3>3, <3>4
    <3>6. QED
      BY <3>5 DEF n
  <2>8. QED
    BY <2>4, <2>6, <2>7 DEF FormatsAgree, m
<1>2. QED
  BY <1>1, FpuInvInit, FpuInvKept, PTL DEF FpuSpec

HIDE FpuAssumption
USE CodeCacheAssumption

-----------------------------------------------------------------------------
(***************************************************************************)
(* Pages.                                                                  *)
(***************************************************************************)

\* Division, as the provers need it.
LEMMA DivBounds ==
  ASSUME NEW x \in Nat, NEW d \in Nat \ {0}
  PROVE  /\ x \div d \in Nat
         /\ d * (x \div d) <= x
         /\ x < d * (x \div d) + d
  OBVIOUS

\* A word of RDRAM is on a page of RDRAM.
LEMMA PageType ==
  ASSUME NEW a \in Addr PROVE Page(a) \in PageId
<1>1. a \in Nat /\ a < NumPages * PageWords
  BY DEF Addr
<1>2. Page(a) \in Nat /\ PageWords * Page(a) <= a
  BY <1>1, DivBounds DEF Page
<1>3. Page(a) < NumPages
  BY <1>1, <1>2
<1> QED BY <1>2, <1>3 DEF PageId

\* A later word is on the same page or a later one.
LEMMA PageMonotone ==
  ASSUME NEW x \in Nat, NEW y \in Nat, x <= y PROVE Page(x) <= Page(y)
  BY DEF Page

\* Words past the end of RDRAM are on no page of RDRAM.
LEMMA SamePageInAddr ==
  ASSUME NEW a \in Addr, NEW x \in Nat, Page(x) = Page(a) PROVE x \in Addr
<1>1. Page(a) \in 0 .. NumPages - 1
  BY PageType DEF PageId
<1>2. x < PageWords * Page(x) + PageWords
  BY DivBounds DEF Page
<1>3. PageWords * (Page(a) + 1) <= PageWords * NumPages
  BY <1>1
<1> QED BY <1>1, <1>2, <1>3 DEF Addr

-----------------------------------------------------------------------------
(***************************************************************************)
(* translate_block returns a sequence of words of RDRAM that fits.         *)
(***************************************************************************)

\* A set of numbers up to a bound that is not empty has a greatest one.
LEMMA GreatestBelow ==
  ASSUME NEW m \in Nat, NEW S \in SUBSET (0 .. m), S # {}
  PROVE  \E n \in S : \A k \in S : k <= n
<1> DEFINE R == OpToRel(<, Nat)
           D == {m - n : n \in S}
<1>1. D # {} /\ D \subseteq Nat
  <2>1. D # {}
    <3>1. PICK n \in S : TRUE
      OBVIOUS
    <3>2. m - n \in D
      OBVIOUS
    <3> HIDE DEF D
    <3> QED BY <3>2
  <2>2. ASSUME NEW n \in S
        PROVE  m - n \in Nat
    <3>1. n \in 0 .. m
      OBVIOUS
    <3> QED BY <3>1
  <2> QED BY <2>1, <2>2
<1>2. IsWellFoundedOn(R, Nat)
  BY NatLessThanWellFounded
<1>3. PICK d \in D : \A e \in D : ~(<<e, d>> \in R)
  <2> HIDE DEF R, D
  <2> QED BY <1>1, <1>2, WFMin
<1>4. PICK n \in S : d = m - n
  OBVIOUS
<1>5. ASSUME NEW k \in S
      PROVE  k <= n
  <2>1. m - k \in D /\ m - k \in Nat /\ d \in Nat
    OBVIOUS
  <2>2. CASE m - k < d
    <3>1. <<m - k, d>> \in R
      BY <2>1, <2>2 DEF OpToRel
    <3> QED BY <1>3, <2>1, <3>1
  <2>3. CASE ~(m - k < d)
    BY <1>4, <2>1, <2>3
  <2> QED BY <2>2, <2>3
<1> QED BY <1>5

\* The run that translate_block takes exists.
LEMMA PlainRunIsOne ==
  ASSUME NEW a \in Addr PROVE PlainRun(a) \in PlainRuns(a)
<1>1. PlainRuns(a) \in SUBSET (0 .. MaxBlockInsns)
  BY DEF PlainRuns
<1>2. 0 \in PlainRuns(a)
  BY DEF PlainRuns
<1>3. \E n \in PlainRuns(a) : \A m \in PlainRuns(a) : m <= n
  BY <1>1, <1>2, GreatestBelow
<1> QED BY <1>3 DEF PlainRun

\* A block has at most MaxBlockInsns words, all of them in RDRAM.
LEMMA BlockInRdram ==
  ASSUME NEW a \in Addr
  PROVE  /\ BlockLength(a) \in 0 .. MaxBlockInsns
         /\ \A i \in 1 .. BlockLength(a) : a + i - 1 \in Addr
<1> DEFINE n == PlainRun(a)
<1>1. /\ n \in 0 .. MaxBlockInsns
      /\ \A i \in 0 .. n - 1 : a + i \in Addr
  BY PlainRunIsOne DEF PlainRuns, IsKind
<1> HIDE DEF n
<1>2. a \in Nat
  BY DEF Addr
<1>3. CASE BlockLength(a) = n
  BY <1>1, <1>2, <1>3
<1>4. CASE /\ BlockLength(a) = n + 1
           /\ n + 1 = MaxBlockInsns
           /\ a + n \in Addr
  BY <1>1, <1>2, <1>4
<1>5. CASE /\ BlockLength(a) = n + 2
           /\ n < MaxBlockInsns /\ n + 1 # MaxBlockInsns
           /\ a + n \in Addr /\ a + n + 1 \in Addr
  BY <1>1, <1>2, <1>5
<1> QED BY <1>1, <1>3, <1>4, <1>5 DEF BlockLength, IsKind, n

\* A block holds the words that RDRAM holds when it is translated.
LEMMA TranslateType ==
  ASSUME NEW a \in Addr, rdram \in [Addr -> Word]
  PROVE  /\ Translate(a) \in Seq(Word)
         /\ Len(Translate(a)) = BlockLength(a)
         /\ \A i \in 1 .. BlockLength(a) : Translate(a)[i] = rdram[a + i - 1]
<1> DEFINE n == BlockLength(a)
<1>1. n \in Nat /\ \A i \in 1 .. n : rdram[a + i - 1] \in Word
  BY BlockInRdram
<1> HIDE DEF n
<1>2. [i \in 1 .. n |-> rdram[a + i - 1]] \in Seq(Word)
  BY <1>1
<1> QED BY <1>1, <1>2 DEF Translate, n

-----------------------------------------------------------------------------
(***************************************************************************)
(* The invariant of the dynarec's cache, which needs no discipline.        *)
(***************************************************************************)

CacheInv ==
  /\ TypeOK
  /\ entries \in [Addr -> Seq(Word)]
  /\ HintIsEntry
  /\ BlocksAreMarked

\* lookup() returns a block of the page.
LEMMA LookupIsEntry ==
  ASSUME NEW a, HintIsEntry PROVE Lookup(a) = entries[a]
  BY DEF HintIsEntry, Lookup

\* A delay slot is a word of RDRAM or none.
LEMMA NextSlotType ==
  ASSUME NEW a PROVE NextSlot(a) \in Addr \cup {NoSlot}
  BY DEF NextSlot

\* Running a block of the cache keeps the hint true.
LEMMA RunWordsInv ==
  ASSUME NEW a \in Addr, NEW words \in Seq(Word), RunWords(a, words)
  PROVE  /\ last_hit' \in Block
         /\ last_hit' = [paddr |-> a, words |-> words]
         /\ delay_slot' \in Addr \cup {NoSlot}
  BY NextSlotType DEF RunWords, Block

\* Running a cached block.
LEMMA RunBlockInv ==
  ASSUME CacheInv, NEW a \in EntryAddr, RunBlock(a) PROVE CacheInv'
<1>1. a \in Addr /\ Lookup(a) = entries[a] /\ entries[a] \in Seq(Word)
  BY LookupIsEntry DEF CacheInv
<1>2. /\ last_hit' \in Block
      /\ last_hit' = [paddr |-> a, words |-> entries[a]]
      /\ delay_slot' \in Addr \cup {NoSlot}
  BY <1>1, RunWordsInv DEF RunBlock
<1>3. UNCHANGED <<rdram, entries, has_code, decoded>>
  BY DEF RunBlock
<1> QED BY <1>2, <1>3 DEF CacheInv, TypeOK, HintIsEntry, BlocksAreMarked

\* Inserting a block into sound pages, old or cleared, keeps them sound.
LEMMA InsertInv ==
  ASSUME NEW a \in Addr, NEW words \in Seq(Word),
         Len(words) \in 1 .. MaxBlockInsns,
         NEW blocks \in [Addr -> Seq(Word)], NEW marks \in [PageId -> BOOLEAN],
         \A b \in Addr : blocks[b] # <<>> =>
           marks[Page(b)] /\ Len(blocks[b]) \in 1 .. MaxBlockInsns,
         Insert(a, words, blocks, marks)
  PROVE  /\ entries' \in [Addr -> Seq(Word)]
         /\ has_code' \in [PageId -> BOOLEAN]
         /\ entries'[a] = words
         /\ \A b \in Addr : entries'[b] # <<>> =>
              has_code'[Page(b)] /\ Len(entries'[b]) \in 1 .. MaxBlockInsns
<1>1. Page(a) \in PageId /\ \A b \in Addr : Page(b) \in PageId
  BY PageType
<1>2. entries' = [blocks EXCEPT ![a] = words]
  BY DEF Insert
<1>3. has_code' = [marks EXCEPT ![Page(a)] = TRUE]
  BY DEF Insert
<1>4. \A b \in Addr : entries'[b] = IF b = a THEN words ELSE blocks[b]
  BY <1>2
<1>5. \A p \in PageId : has_code'[p] <=> p = Page(a) \/ marks[p]
  BY <1>1, <1>3, Zenon
<1>6. has_code' \in [PageId -> BOOLEAN]
  BY <1>1, <1>3
<1>7. entries' \in [Addr -> Seq(Word)] /\ entries'[a] = words
  BY <1>2
<1> QED BY <1>1, <1>4, <1>5, <1>6, <1>7

\* Compiling and running, with or without a flush in alloc_exec.
LEMMA CompileBlockInv ==
  ASSUME CacheInv, NEW a \in EntryAddr, CompileBlock(a) PROVE CacheInv'
<1> DEFINE words == Translate(a)
<1>1. a \in Addr /\ rdram \in [Addr -> Word]
  BY DEF CacheInv, TypeOK
<1>2. words \in Seq(Word) /\ Len(words) \in 1 .. MaxBlockInsns
  BY <1>1, TranslateType, BlockInRdram DEF CompileBlock
<1> HIDE DEF words
<1>3. /\ entries' \in [Addr -> Seq(Word)]
      /\ has_code' \in [PageId -> BOOLEAN]
      /\ entries'[a] = words
      /\ \A b \in Addr : entries'[b] # <<>> =>
           has_code'[Page(b)] /\ Len(entries'[b]) \in 1 .. MaxBlockInsns
  <2>1. CASE Insert(a, words, entries, has_code)
    BY <1>1, <1>2, <2>1, InsertInv DEF CacheInv, TypeOK, BlocksAreMarked
  <2>2. CASE Insert(a, words, NoBlocks, NoMarks)
    <3>1. /\ NoBlocks \in [Addr -> Seq(Word)]
          /\ NoMarks \in [PageId -> BOOLEAN]
          /\ \A b \in Addr : NoBlocks[b] = <<>>
      BY DEF NoBlocks, NoMarks
    <3> QED BY <1>1, <1>2, <2>2, <3>1, InsertInv
  <2> QED BY <2>1, <2>2 DEF CompileBlock, words
<1>4. /\ last_hit' \in Block
      /\ last_hit' = [paddr |-> a, words |-> words]
      /\ delay_slot' \in Addr \cup {NoSlot}
  BY <1>1, <1>2, RunWordsInv DEF CompileBlock, words
<1>5. UNCHANGED <<rdram, decoded>>
  BY DEF CompileBlock
<1> QED BY <1>3, <1>4, <1>5 DEF CacheInv, TypeOK, HintIsEntry, BlocksAreMarked

\* The fallback on the interpreter.
LEMMA InterpretInv ==
  ASSUME CacheInv, NEW a \in Addr, Interpret(a) PROVE CacheInv'
<1>1. decoded' \in [Addr -> Word \cup {NoWord}]
  BY DEF Interpret, CacheInv, TypeOK
<1>2. delay_slot' \in Addr \cup {NoSlot}
  BY NextSlotType DEF Interpret
<1>3. UNCHANGED <<rdram, entries, has_code, last_hit>>
  BY DEF Interpret
<1> QED BY <1>1, <1>2, <1>3 DEF CacheInv, TypeOK, HintIsEntry, BlocksAreMarked

\* Dropping any set of pages that it may drop keeps the cache sound; with
\* nothing dropped the hint may stay.
LEMMA DropPagesInv ==
  ASSUME CacheInv, NEW pages, DropPages(pages)
  PROVE  /\ entries' \in [Addr -> Seq(Word)]
         /\ \A a \in Addr : entries'[a] = IF Page(a) \in pages THEN <<>>
                                          ELSE entries[a]
         /\ has_code' \in [PageId -> BOOLEAN]
         /\ last_hit' \in Block
         /\ HintIsEntry' /\ BlocksAreMarked'
<1>1. entries' = [a \in Addr |-> IF Page(a) \in pages THEN <<>> ELSE entries[a]]
  BY DEF DropPages
<1>2. entries' \in [Addr -> Seq(Word)]
  BY <1>1 DEF CacheInv
<1>3. has_code' = [p \in PageId |-> has_code[p] /\ p \notin pages]
  BY DEF DropPages
<1>4. has_code' \in [PageId -> BOOLEAN]
  BY <1>3, Zenon
<1>5. BlocksAreMarked'
  BY <1>1, <1>3, PageType DEF CacheInv, BlocksAreMarked
<1>6. last_hit' \in Block /\ HintIsEntry'
  <2>1. CASE pages = {}
    <3>1. last_hit' = last_hit /\ last_hit.paddr \in Addr
      BY <2>1 DEF DropPages, CacheInv, TypeOK, Block
    <3>2. \A a \in Addr : entries'[a] = entries[a]
      BY <1>1, <2>1
    <3> QED BY <3>1, <3>2 DEF CacheInv, TypeOK, HintIsEntry
  <2>2. CASE pages # {}
    <3>1. last_hit' = NoHint
      BY <2>2 DEF DropPages
    <3>2. 0 \in Addr
      <4>1. NumPages * PageWords >= 1
        OBVIOUS
      <4> QED BY <4>1 DEF Addr
    <3> QED BY <3>1, <3>2 DEF NoHint, Block, HintIsEntry
  <2> QED BY <2>1, <2>2
<1> QED BY <1>1, <1>2, <1>4, <1>5, <1>6

-----------------------------------------------------------------------------
(***************************************************************************)
(* The writers of RDRAM.                                                   *)
(***************************************************************************)

\* A DMA leaves words in RDRAM.
LEMMA OverwriteType ==
  ASSUME rdram \in [Addr -> Word], NEW r, NEW data \in [r[1] .. r[2] -> Word],
         Overwrite(r, data)
  PROVE  rdram' \in [Addr -> Word]
  BY DEF Overwrite

\* The hook leaves words or nothing in the decode cache.
LEMMA HookDecoded ==
  ASSUME decoded \in [Addr -> Word \cup {NoWord}],
         NEW first, NEW last, CodeInvalidateHook(first, last)
  PROVE  decoded' \in [Addr -> Word \cup {NoWord}]
  BY DEF CodeInvalidateHook

\* A write that drops pages of the dynarec.
LEMMA DropStepInv ==
  ASSUME CacheInv, NEW pages, DropPages(pages),
         rdram' \in [Addr -> Word], decoded' \in [Addr -> Word \cup {NoWord}],
         UNCHANGED delay_slot
  PROVE  CacheInv'
<1>1. /\ entries' \in [Addr -> Seq(Word)]
      /\ \A a \in Addr : entries'[a] = IF Page(a) \in pages THEN <<>>
                                       ELSE entries[a]
      /\ has_code' \in [PageId -> BOOLEAN]
      /\ last_hit' \in Block
      /\ HintIsEntry' /\ BlocksAreMarked'
  BY DropPagesInv
<1>2. \A a \in Addr : entries'[a] # <<>> =>
        /\ entries'[a] \in Seq(Word)
        /\ Len(entries'[a]) \in 1 .. MaxBlockInsns
  BY <1>1 DEF CacheInv, TypeOK
<1>3. delay_slot' \in Addr \cup {NoSlot}
  BY DEF CacheInv, TypeOK
<1> QED BY <1>1, <1>2, <1>3 DEF CacheInv, TypeOK

\* A write that no cache hears of.
LEMMA SilentStepInv ==
  ASSUME CacheInv, rdram' \in [Addr -> Word],
         UNCHANGED <<entries, has_code, last_hit, decoded, delay_slot>>
  PROVE  CacheInv'
  BY DEF CacheInv, TypeOK, HintIsEntry, BlocksAreMarked

\* Every writer of RDRAM keeps the cache sound.
LEMMA WriterInv ==
  ASSUME CacheInv,
         \/ \E a \in BusAddr, w \in Word : BusStore(a, w)
         \/ \E a \in HelperAddr, w \in Word : HelperStore(a, w)
         \/ \E a \in InlineAddr, w \in Word : InlineStore(a, w)
         \/ \E r \in DmaRange : \E data \in [r[1] .. r[2] -> Word] : Dma(r, data)
         \/ \E r \in SiRange : \E data \in [r[1] .. r[2] -> Word] : SiDma(r, data)
  PROVE  CacheInv'
<1>0. rdram \in [Addr -> Word] /\ decoded \in [Addr -> Word \cup {NoWord}]
  BY DEF CacheInv, TypeOK
<1>1. ASSUME NEW a \in BusAddr, NEW w \in Word, BusStore(a, w) PROVE CacheInv'
  BY <1>0, <1>1, HookDecoded, DropStepInv DEF BusStore, CodeInvalidateHook
<1>2. ASSUME NEW a \in HelperAddr, NEW w \in Word, HelperStore(a, w)
      PROVE  CacheInv'
  BY <1>0, <1>2, DropStepInv DEF HelperStore
<1>3. ASSUME NEW a \in InlineAddr, NEW w \in Word, InlineStore(a, w)
      PROVE  CacheInv'
  BY <1>0, <1>3, SilentStepInv DEF InlineStore
<1>4. ASSUME NEW r \in DmaRange, NEW data \in [r[1] .. r[2] -> Word], Dma(r, data)
      PROVE  CacheInv'
  BY <1>0, <1>4, OverwriteType, HookDecoded, DropStepInv
  DEF Dma, CodeInvalidateHook
<1>5. ASSUME NEW r \in SiRange, NEW data \in [r[1] .. r[2] -> Word], SiDma(r, data)
      PROVE  CacheInv'
  BY <1>0, <1>5, OverwriteType, SilentStepInv DEF SiDma
<1> QED BY <1>1, <1>2, <1>3, <1>4, <1>5

-----------------------------------------------------------------------------

\* The invariant holds of every behaviour.
LEMMA CacheInvariant == Spec => []CacheInv
<1>1. Init => CacheInv
  <2> SUFFICES ASSUME Init PROVE CacheInv
    OBVIOUS
  <2>1. /\ rdram \in [Addr -> Word]
        /\ \A a \in Addr : entries[a] = <<>>
        /\ entries \in [Addr -> Seq(Word)]
        /\ has_code \in [PageId -> BOOLEAN]
        /\ decoded \in [Addr -> Word \cup {NoWord}]
        /\ delay_slot = NoSlot
    BY DEF Init, NoBlocks, NoMarks
  <2>2. last_hit = NoHint /\ NoHint \in Block
    <3>1. 0 \in Addr
      <4>1. NumPages * PageWords >= 1
        OBVIOUS
      <4> QED BY <4>1 DEF Addr
    <3> QED BY <3>1 DEF Init, NoHint, Block
  <2> QED BY <2>1, <2>2 DEF CacheInv, TypeOK, HintIsEntry, BlocksAreMarked
<1>2. CacheInv /\ [Next]_vars => CacheInv'
  <2> SUFFICES ASSUME CacheInv, [Next]_vars PROVE CacheInv'
    OBVIOUS
  <2>1. CASE \E a \in EntryAddr : RunBlock(a) \/ CompileBlock(a)
    BY <2>1, RunBlockInv, CompileBlockInv
  <2>2. CASE \E a \in Addr : Interpret(a)
    BY <2>2, InterpretInv
  <2>3. CASE UNCHANGED vars
    BY <2>3 DEF vars, CacheInv, TypeOK, HintIsEntry, BlocksAreMarked
  <2> QED BY <2>1, <2>2, <2>3, WriterInv DEF Next
<1> QED BY <1>1, <1>2, PTL DEF Spec

\* Blocks are non-empty, fit the block limit and hold words of RDRAM; the
\* hint, the decode cache and the pending delay slot are well formed.
THEOREM CacheTypeCorrect == Spec => []TypeOK
  BY CacheInvariant, PTL DEF CacheInv

\* The hint of lookup() never names a block that was dropped or flushed,
\* whatever the writers of RDRAM do.
THEOREM HintCorrect == Spec => []HintIsEntry
  BY CacheInvariant, PTL DEF CacheInv

\* A page without the mark holds the start of no block: the cheap rejects
\* lose nothing of the page they look at.
THEOREM MarksCorrect == Spec => []BlocksAreMarked
  BY CacheInvariant, PTL DEF CacheInv

-----------------------------------------------------------------------------
(***************************************************************************)
(* Freshness, under disciplines of the guest program that the code does    *)
(* not enforce.                                                            *)
(***************************************************************************)

\* Nothing that calls no hook writes to a page with an entry point, and a DMA
\* of at most two words stays on a page.
CodePagesAreHooked ==
  /\ \A a \in EntryAddr, b \in InlineAddr : Page(a) # Page(b)
  /\ \A a \in EntryAddr, r \in SiRange, b \in Addr :
       b \in r[1] .. r[2] => Page(a) # Page(b)
  /\ \A r \in DmaRange : r[2] - r[1] <= 1 => Page(r[1]) = Page(r[2])

BlocksAtEntries == \A a \in Addr : entries[a] # <<>> => a \in EntryAddr

FreshInv == OwnPageFresh /\ BlocksAtEntries

\* A write leaves a block fresh when it drops the block or touches no word of
\* the page the block starts on.
LEMMA FreshAfterDrop ==
  ASSUME CacheInv, FreshInv, NEW pages, DropPages(pages),
         ASSUME NEW a \in Addr, NEW x \in Addr, entries[a] # <<>>,
                Page(x) = Page(a), Page(a) \notin pages
         PROVE  rdram'[x] = rdram[x]
  PROVE  FreshInv'
<1>1. \A a \in Addr : entries'[a] # <<>> =>
        entries'[a] = entries[a] /\ Page(a) \notin pages
  BY DropPagesInv
<1>2. ASSUME NEW a \in Addr, entries'[a] # <<>>,
             NEW i \in 1 .. Len(entries'[a]), Page(a + i - 1) = Page(a)
      PROVE  entries'[a][i] = rdram'[a + i - 1]
  <2>1. entries'[a] = entries[a] /\ Page(a) \notin pages
    BY <1>1, <1>2
  <2>2. Len(entries[a]) \in Nat /\ a \in Nat
    BY <1>2, <2>1 DEF CacheInv, TypeOK, Addr
  <2>3. a + i - 1 \in Addr
    BY <1>2, <2>1, <2>2, SamePageInAddr
  <2>4. entries[a][i] = rdram[a + i - 1]
    BY <1>2, <2>1 DEF FreshInv, OwnPageFresh
  <2>5. rdram'[a + i - 1] = rdram[a + i - 1]
    BY <1>2, <2>1, <2>3
  <2> QED BY <2>1, <2>4, <2>5
<1>3. OwnPageFresh'
  BY <1>2 DEF OwnPageFresh
<1>4. BlocksAtEntries'
  BY <1>1 DEF FreshInv, BlocksAtEntries
<1> QED BY <1>3, <1>4 DEF FreshInv

\* A write that calls no hook, away from the pages of code.
LEMMA FreshAfterSilent ==
  ASSUME CacheInv, FreshInv, UNCHANGED entries,
         ASSUME NEW a \in EntryAddr, NEW x \in Addr, Page(x) = Page(a)
         PROVE  rdram'[x] = rdram[x]
  PROVE  FreshInv'
<1>1. ASSUME NEW a \in Addr, entries[a] # <<>>,
             NEW i \in 1 .. Len(entries[a]), Page(a + i - 1) = Page(a)
      PROVE  entries[a][i] = rdram'[a + i - 1]
  <2>1. a \in EntryAddr
    BY <1>1 DEF FreshInv, BlocksAtEntries
  <2>2. Len(entries[a]) \in Nat /\ a \in Nat
    BY <1>1 DEF CacheInv, TypeOK, Addr
  <2>3. a + i - 1 \in Addr
    BY <1>1, <2>2, SamePageInAddr
  <2>4. rdram'[a + i - 1] = rdram[a + i - 1]
    BY <1>1, <2>1, <2>3
  <2> QED BY <1>1, <2>4 DEF FreshInv, OwnPageFresh
<1>2. OwnPageFresh'
  BY <1>1 DEF OwnPageFresh
<1>3. BlocksAtEntries'
  BY DEF FreshInv, BlocksAtEntries
<1> QED BY <1>2, <1>3 DEF FreshInv

\* What translate_block read is what RDRAM holds.
LEMMA FreshAfterCompile ==
  ASSUME CacheInv, FreshInv, NEW a \in EntryAddr, CompileBlock(a)
  PROVE  FreshInv'
<1> DEFINE words == Translate(a)
<1>1. a \in Addr /\ rdram \in [Addr -> Word] /\ rdram' = rdram
  BY DEF CacheInv, TypeOK, CompileBlock
<1>2. /\ Len(words) = BlockLength(a)
      /\ \A i \in 1 .. Len(words) : words[i] = rdram[a + i - 1]
  BY <1>1, TranslateType
<1> HIDE DEF words
<1>3. ASSUME NEW blocks \in [Addr -> Seq(Word)], NEW marks,
             \A b \in Addr : blocks[b] = entries[b] \/ blocks[b] = <<>>,
             Insert(a, words, blocks, marks)
      PROVE  FreshInv'
  <2>1. \A b \in Addr : entries'[b] = IF b = a THEN words ELSE blocks[b]
    BY <1>3 DEF Insert
  <2>2. OwnPageFresh'
    BY <1>1, <1>2, <1>3, <2>1 DEF FreshInv, OwnPageFresh
  <2>3. BlocksAtEntries'
    BY <1>3, <2>1 DEF FreshInv, BlocksAtEntries
  <2> QED BY <2>2, <2>3 DEF FreshInv
<1>4. CASE Insert(a, words, entries, has_code)
  BY <1>3, <1>4 DEF CacheInv
<1>5. CASE Insert(a, words, NoBlocks, NoMarks)
  <2>1. NoBlocks \in [Addr -> Seq(Word)] /\ \A b \in Addr : NoBlocks[b] = <<>>
    BY DEF NoBlocks
  <2> QED BY <1>3, <1>5, <2>1
<1> QED BY <1>4, <1>5 DEF CompileBlock, words

\* The pages dropped for a range hold every block that starts on a page of
\* the range, unless the range is a short one across a page.
LEMMA DroppedPagesEnough ==
  ASSUME CacheInv, NEW first \in Addr, NEW last \in Addr, first <= last,
         last - first <= 1 => Page(first) = Page(last),
         NEW a \in Addr, entries[a] # <<>>,
         NEW x \in first .. last, Page(x) = Page(a)
  PROVE  Page(a) \in DroppedPages(first, last)
<1>1. has_code[Page(a)]
  BY DEF CacheInv, BlocksAreMarked
<1>2. first \in Nat /\ last \in Nat /\ x \in Nat /\ first <= x /\ x <= last
  BY DEF Addr
<1>3. Page(first) <= Page(x) /\ Page(x) <= Page(last)
  BY <1>2, PageMonotone
<1>4. /\ Page(first) \in Nat /\ Page(last) \in Nat /\ Page(a) \in Nat
  BY PageType DEF PageId
<1>5. Page(a) \in Page(first) .. Page(last)
  BY <1>3, <1>4
<1>6. ~(last - first <= 1 /\ ~has_code[Page(first)])
  BY <1>1, <1>3, <1>4
<1> QED BY <1>1, <1>5, <1>6 DEF DroppedPages

\* Under the discipline every writer keeps the blocks fresh.
LEMMA WriterFresh ==
  ASSUME CacheInv, FreshInv, CodePagesAreHooked,
         \/ \E a \in BusAddr, w \in Word : BusStore(a, w)
         \/ \E a \in HelperAddr, w \in Word : HelperStore(a, w)
         \/ \E a \in InlineAddr, w \in Word : InlineStore(a, w)
         \/ \E r \in DmaRange : \E data \in [r[1] .. r[2] -> Word] : Dma(r, data)
         \/ \E r \in SiRange : \E data \in [r[1] .. r[2] -> Word] : SiDma(r, data)
  PROVE  FreshInv'
<1>0. rdram \in [Addr -> Word]
  BY DEF CacheInv, TypeOK
<1>1. ASSUME NEW s \in Addr, NEW w \in Word,
             rdram' = [rdram EXCEPT ![s] = w], DropPages(DroppedPages(s, s))
      PROVE  FreshInv'
  <2>1. ASSUME NEW a \in Addr, NEW x \in Addr, entries[a] # <<>>,
               Page(x) = Page(a), Page(a) \notin DroppedPages(s, s)
        PROVE  rdram'[x] = rdram[x]
    <3>1. s \in s .. s /\ s <= s
      BY DEF Addr
    <3>2. x # s
      BY <2>1, <3>1, DroppedPagesEnough
    <3> QED BY <1>0, <1>1, <3>2
  <2> QED BY <1>1, <2>1, FreshAfterDrop
<1>2. ASSUME NEW s \in BusAddr, NEW w \in Word, BusStore(s, w) PROVE FreshInv'
  BY <1>1, <1>2 DEF BusStore, CodeInvalidateHook
<1>3. ASSUME NEW s \in HelperAddr, NEW w \in Word, HelperStore(s, w)
      PROVE  FreshInv'
  <2>1. ~has_code[Page(s)] => DroppedPages(s, s) = {}
    BY DEF DroppedPages, Addr
  <2> QED BY <1>1, <1>3, <2>1 DEF HelperStore
<1>4. ASSUME NEW s \in InlineAddr, NEW w \in Word, InlineStore(s, w)
      PROVE  FreshInv'
  <2>1. ASSUME NEW a \in EntryAddr, NEW x \in Addr, Page(x) = Page(a)
        PROVE  rdram'[x] = rdram[x]
    <3>1. x # s
      BY <2>1 DEF CodePagesAreHooked
    <3> QED BY <1>0, <1>4, <3>1 DEF InlineStore
  <2> QED BY <1>4, <2>1, FreshAfterSilent DEF InlineStore
<1>5. ASSUME NEW r \in DmaRange, NEW data \in [r[1] .. r[2] -> Word], Dma(r, data)
      PROVE  FreshInv'
  <2>1. r[1] \in Addr /\ r[2] \in Addr /\ r[1] <= r[2]
    OBVIOUS
  <2>2. r[2] - r[1] <= 1 => Page(r[1]) = Page(r[2])
    BY DEF CodePagesAreHooked
  <2>3. ASSUME NEW a \in Addr, NEW x \in Addr, entries[a] # <<>>,
               Page(x) = Page(a), Page(a) \notin DroppedPages(r[1], r[2])
        PROVE  rdram'[x] = rdram[x]
    <3>1. x \notin r[1] .. r[2]
      BY <2>1, <2>2, <2>3, DroppedPagesEnough
    <3> QED BY <1>5, <3>1 DEF Dma, Overwrite
  <2> QED BY <1>5, <2>3, FreshAfterDrop DEF Dma, CodeInvalidateHook
<1>6. ASSUME NEW r \in SiRange, NEW data \in [r[1] .. r[2] -> Word], SiDma(r, data)
      PROVE  FreshInv'
  <2>1. ASSUME NEW a \in EntryAddr, NEW x \in Addr, Page(x) = Page(a)
        PROVE  rdram'[x] = rdram[x]
    <3>1. x \notin r[1] .. r[2]
      BY <2>1 DEF CodePagesAreHooked
    <3> QED BY <1>6, <3>1 DEF SiDma, Overwrite
  <2> QED BY <1>6, <2>1, FreshAfterSilent DEF SiDma
<1> QED BY <1>2, <1>3, <1>4, <1>5, <1>6

\* If inlined stores and SI DMAs keep off the pages of code and short DMAs do
\* not cross a page, no block ever holds a stale word of the page it starts
\* on, whatever the CPU, the helpers, PI and RSP write.
THEOREM BlocksStayFresh ==
  ASSUME CodePagesAreHooked
  PROVE  Spec => []OwnPageFresh
<1>1. Init => FreshInv
  BY DEF Init, NoBlocks, FreshInv, OwnPageFresh, BlocksAtEntries
<1>2. CacheInv /\ FreshInv /\ [Next]_vars => FreshInv'
  <2> SUFFICES ASSUME CacheInv, FreshInv, [Next]_vars PROVE FreshInv'
    OBVIOUS
  <2>1. ASSUME NEW a \in EntryAddr, CompileBlock(a) PROVE FreshInv'
    BY <2>1, FreshAfterCompile
  <2>2. CASE UNCHANGED <<rdram, entries>>
    BY <2>2 DEF FreshInv, OwnPageFresh, BlocksAtEntries
  <2> QED
    BY <2>1, <2>2, WriterFresh DEF Next, RunBlock, Interpret, vars
<1> QED BY <1>1, <1>2, CacheInvariant, PTL DEF Spec, FreshInv

-----------------------------------------------------------------------------
(***************************************************************************)
(* The interpreter's decode cache.                                         *)
(***************************************************************************)

\* A word that only writers with the full hook ever write.
Hooked(a) ==
  /\ a \notin HelperAddr \cup InlineAddr
  /\ \A r \in SiRange : a \notin r[1] .. r[2]

HookedFresh ==
  \A a \in Addr : Hooked(a) /\ decoded[a] # NoWord => decoded[a] = rdram[a]

\* The hook forgets every word of a range that it is called for.
LEMMA HookForgets ==
  ASSUME HookedFresh, NEW first \in Addr, NEW last \in Addr,
         CodeInvalidateHook(first, last),
         \A x \in Addr : x \notin first .. last => rdram'[x] = rdram[x]
  PROVE  HookedFresh'
<1> SUFFICES ASSUME NEW x \in Addr, Hooked(x), decoded'[x] # NoWord
             PROVE  decoded'[x] = rdram'[x]
  BY DEF HookedFresh, Hooked
<1>1. decoded'[x] = IF Page(x) \in Page(first) .. Page(last) THEN NoWord
                    ELSE decoded[x]
  BY DEF CodeInvalidateHook
<1>2. Page(x) \notin Page(first) .. Page(last)
  BY <1>1
<1>3. x \notin first .. last
  <2> SUFFICES ASSUME x \in first .. last PROVE FALSE
    OBVIOUS
  <2>1. first \in Nat /\ last \in Nat /\ x \in Nat
    BY DEF Addr
  <2>2. Page(first) <= Page(x) /\ Page(x) <= Page(last)
    BY <2>1, PageMonotone
  <2>3. Page(first) \in Int /\ Page(x) \in Int /\ Page(last) \in Int
    BY PageType DEF PageId
  <2> QED BY <1>2, <2>2, <2>3
<1> QED BY <1>1, <1>2, <1>3 DEF HookedFresh

\* Every writer keeps the words fresh that only hooked writers write.
LEMMA WriterHooked ==
  ASSUME CacheInv, HookedFresh,
         \/ \E a \in BusAddr, w \in Word : BusStore(a, w)
         \/ \E a \in HelperAddr, w \in Word : HelperStore(a, w)
         \/ \E a \in InlineAddr, w \in Word : InlineStore(a, w)
         \/ \E r \in DmaRange : \E data \in [r[1] .. r[2] -> Word] : Dma(r, data)
         \/ \E r \in SiRange : \E data \in [r[1] .. r[2] -> Word] : SiDma(r, data)
  PROVE  HookedFresh'
<1>0. rdram \in [Addr -> Word]
  BY DEF CacheInv, TypeOK
<1>1. ASSUME NEW a \in BusAddr, NEW w \in Word, BusStore(a, w)
      PROVE  HookedFresh'
  <2>1. a \in Addr /\ a \in a .. a
    BY DEF Addr
  <2>2. \A x \in Addr : x \notin a .. a => rdram'[x] = rdram[x]
    BY <1>0, <1>1, <2>1 DEF BusStore
  <2> QED BY <1>1, <2>1, <2>2, HookForgets DEF BusStore
<1>2. ASSUME NEW a \in HelperAddr, NEW w \in Word, HelperStore(a, w)
      PROVE  HookedFresh'
  BY <1>0, <1>2 DEF HelperStore, HookedFresh, Hooked
<1>3. ASSUME NEW a \in InlineAddr, NEW w \in Word, InlineStore(a, w)
      PROVE  HookedFresh'
  BY <1>0, <1>3 DEF InlineStore, HookedFresh, Hooked
<1>4. ASSUME NEW r \in DmaRange, NEW data \in [r[1] .. r[2] -> Word], Dma(r, data)
      PROVE  HookedFresh'
  <2>1. r[1] \in Addr /\ r[2] \in Addr
    OBVIOUS
  <2>2. \A x \in Addr : x \notin r[1] .. r[2] => rdram'[x] = rdram[x]
    BY <1>4 DEF Dma, Overwrite
  <2> QED BY <1>4, <2>1, <2>2, HookForgets DEF Dma
<1>5. ASSUME NEW r \in SiRange, NEW data \in [r[1] .. r[2] -> Word], SiDma(r, data)
      PROVE  HookedFresh'
  BY <1>5 DEF SiDma, Overwrite, HookedFresh, Hooked
<1> QED BY <1>1, <1>2, <1>3, <1>4, <1>5

\* With no assumption on the guest, the only words that the interpreter may
\* execute stale are those that a writer without the full hook writes: CPU
\* stores, PI and RSP DMAs forget all that they overwrite.
THEOREM StaleOnlyWhereUnhooked == Spec => []HookedFresh
<1>1. Init => HookedFresh
  BY DEF Init, HookedFresh
<1>2. CacheInv /\ HookedFresh /\ [Next]_vars => HookedFresh'
  <2> SUFFICES ASSUME CacheInv, HookedFresh, [Next]_vars PROVE HookedFresh'
    OBVIOUS
  <2>1. ASSUME NEW a \in Addr, Interpret(a) PROVE HookedFresh'
    BY <2>1 DEF Interpret, CacheInv, TypeOK, HookedFresh, Hooked
  <2>2. CASE UNCHANGED <<rdram, decoded>>
    BY <2>2 DEF HookedFresh, Hooked
  <2> QED
    BY <2>1, <2>2, WriterHooked DEF Next, RunBlock, CompileBlock, vars
<1> QED BY <1>1, <1>2, CacheInvariant, PTL DEF Spec

\* So, where helpers, inlined stores and SI DMAs write no guest memory, the
\* interpreter never executes a stale word, though it runs only now and then.
THEOREM InterpreterStaysFresh ==
  ASSUME \A a \in Addr : Hooked(a)
  PROVE  Spec => []DecodeFresh
<1>1. HookedFresh => DecodeFresh
  BY DEF HookedFresh, DecodeFresh
<1> QED BY <1>1, StaleOnlyWhereUnhooked, PTL
==============================================================================
