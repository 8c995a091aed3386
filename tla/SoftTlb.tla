------------------------------- MODULE SoftTlb -------------------------------
(* The R4300 TLB (mmu/tlb.cpp), the registers that feed it (cpu/cop0.cpp) and the *)
(* soft TLB, a direct-mapped cache of its answers that every load, store and fetch *)
(* of a mapped address goes through (mmu/soft_tlb.cpp).                            *)
(*                                                                                *)
(* An address is its 4 KiB page, a number; pages from KernelBase on lie in the     *)
(* mapped kernel segments, whose 64-bit form has the bits above bit 31 set (ext). *)
(* EntryLo, PageMask and the Index an instruction names have no effect of their    *)
(* own and are inputs of the instruction that uses them.                           *)
EXTENDS Naturals, FiniteSets, FiniteSetsExt

CONSTANTS NumEntries,  \* entries of the TLB (32)
          NumVPages,    \* virtual pages
          KernelBase,  \* the first page of the mapped kernel segments
          Asid,        \* address space identifiers
          Setting,     \* what a guest writes to PageMask (a bit pair), EntryLo0 and EntryLo1:
                       \* records [field, lo, global], lo a pair of [pfn, v, d]
          WiredValue,  \* values a guest writes to WIRED (0..2 * NumEntries - 1)
          RdramPage,   \* physical pages that are RDRAM; only those are cached
          SoftSize,    \* entries of each soft TLB table (4096)
          AnyRead,     \* whether the guest reads entries of foreign address spaces
          NoEntry

Entry == [vpn2 : Nat, ext : BOOLEAN, asid : Asid, global : {w.global : w \in Setting},
          span : {1, 4}, lo : {w.lo : w \in Setting}]

ASSUME SoftTlbAssumption ==
    /\ NumEntries \in Nat \ {0} /\ SoftSize \in Nat \ {0}
    /\ NumVPages \in Nat /\ KernelBase \in Nat
    /\ WiredValue \subseteq 0 .. 2 * NumEntries - 1
    /\ NoEntry \notin Nat /\ NoEntry # "miss" /\ 0 \in Asid
    /\ \A w \in Setting : w.field \in 0 .. 3
    /\ NoEntry \notin Entry

VARIABLES entryAt,   \* the TLB: an entry or NoEntry per index
          entryHi,   \* EntryHi: VPN2, its bits above a 32-bit address, ASID
          random, wired,
          loads, stores  \* soft TLB: NoEntry or a page and its physical page per index

tlbVars == <<entryAt, entryHi, random, wired, loads, stores>>

Index == 0 .. NumEntries - 1
VPage == 0 .. NumVPages - 1
Ext(page) == page >= KernelBase
Hi == [vpn2 : {p \div 2 : p \in VPage}, ext : BOOLEAN, asid : Asid]

----------------------------------------------------------------------------
(* Translation. A bit pair of PageMask counts by its top bit only.          *)

Span(field) == IF field >= 2 THEN 4 ELSE 1

\* pfn | low, for the two low bits a 16 KiB page takes from the address.
Bits(n) == {b \in {1, 2} : (n \div b) % 2 = 1}
OrLow(pfn, low) ==
    LET bits == Bits(pfn) \cup Bits(low) IN
    4 * (pfn \div 4) + (IF 2 \in bits THEN 2 ELSE 0) + (IF 1 \in bits THEN 1 ELSE 0)

MutMatches(e, vpn2, ext) ==
    /\ e # NoEntry
    /\ vpn2 = e.vpn2 /\ ext = e.ext
    /\ e.global \/ e.asid = entryHi.asid

Matches(e, vpn2, ext) ==
    /\ e # NoEntry
    /\ vpn2 \div e.span = e.vpn2 \div e.span /\ ext = e.ext
    /\ e.global \/ e.asid = entryHi.asid

Hits(vpn2, ext) == {i \in Index : Matches(entryAt[i], vpn2, ext)}

\* TLB::lookup_tlb_entry_index: the first entry that matches.
LookUp(vpn2, ext) == IF Hits(vpn2, ext) = {} THEN NoEntry ELSE Min(Hits(vpn2, ext))

Half(e, page) == IF (page \div e.span) % 2 = 0 THEN e.lo[1] ELSE e.lo[2]

\* TLB::probe: the physical page, or NoEntry with the error that get_tlb_exception_code reads.
Probe(page, access) ==
    LET i == LookUp(page \div 2, Ext(page)) IN
    IF i = NoEntry THEN [paddr |-> NoEntry, error |-> "miss"]
    ELSE LET lo == Half(entryAt[i], page) IN
         IF ~lo.v THEN [paddr |-> NoEntry, error |-> "invalid"]
         ELSE IF access = "store" /\ ~lo.d THEN [paddr |-> NoEntry, error |-> "modification"]
         ELSE [paddr |-> OrLow(lo.pfn, page % entryAt[i].span), error |-> NoEntry]

----------------------------------------------------------------------------
(* The soft TLB.                                                            *)

Empty == [s \in 0 .. SoftSize - 1 |-> NoEntry]
FlushSoft == loads' = Empty /\ stores' = Empty
SoftIndex(page) == page % SoftSize
Table(access) == IF access = "store" THEN stores ELSE loads

SoftHit(page, access) ==
    LET e == Table(access)[SoftIndex(page)] IN e # NoEntry /\ e.page = page

Note(page, paddr, access) ==
    LET t == [Table(access) EXCEPT ![SoftIndex(page)] = [page |-> page, paddr |-> paddr]] IN
    IF access = "store" THEN stores' = t /\ UNCHANGED loads ELSE loads' = t /\ UNCHANGED stores

\* TLB::on_tlb_exception: EntryHi names the page, under the same ASID.
TlbException(page) ==
    entryHi' = [entryHi EXCEPT !.vpn2 = page \div 2, !.ext = Ext(page)]

\* resolve_vaddr_cached: an access within one page asks the soft TLB first; an
\* answer of the TLB that lies in RDRAM is noted. LWL and its like in compiled code,
\* and the fetch of a block, ask the TLB alone (cached = FALSE).
Access(page, access, crosses, cached) ==
    /\ UNCHANGED <<entryAt, random, wired>>
    /\ IF cached /\ ~crosses /\ SoftHit(page, access)
       THEN UNCHANGED <<entryHi, loads, stores>>
       ELSE LET r == Probe(page, access) IN
            CASE r.paddr = NoEntry -> TlbException(page) /\ UNCHANGED <<loads, stores>>
              [] r.paddr # NoEntry /\ cached /\ r.paddr \in RdramPage ->
                    Note(page, r.paddr, access) /\ UNCHANGED entryHi
              [] OTHER -> UNCHANGED <<entryHi, loads, stores>>

----------------------------------------------------------------------------
(* COP0: MTC0, DMTC0 and the TLB instructions.                              *)

MutWriteEntryHi(page, wide, asid) ==
    /\ entryHi' = [vpn2 |-> page \div 2, ext |-> wide /\ Ext(page), asid |-> asid]
    /\ UNCHANGED <<entryAt, random, wired, loads, stores>>

\* MTC0 clears what lies above a 32-bit address; DMTC0 of a sign-extended one keeps it.
\* Only another ASID empties the soft TLB.
WriteEntryHi(page, wide, asid) ==
    /\ entryHi' = [vpn2 |-> page \div 2, ext |-> wide /\ Ext(page), asid |-> asid]
    /\ IF asid # entryHi.asid THEN FlushSoft ELSE UNCHANGED <<loads, stores>>
    /\ UNCHANGED <<entryAt, random, wired>>

RandomLo(w) == IF w > NumEntries - 1 THEN 0 ELSE w
RandomHi(w) == IF w > NumEntries - 1 THEN 2 * NumEntries - 1 ELSE NumEntries - 1
InRange(r, w) == IF r < RandomLo(w) \/ r > RandomHi(w) THEN RandomLo(w) ELSE r

WriteWired(w) ==
    /\ wired' = w /\ random' = InRange(random, w)
    /\ UNCHANGED <<entryAt, entryHi, loads, stores>>

TlbEntry(w) ==
    [vpn2 |-> (entryHi.vpn2 \div Span(w.field)) * Span(w.field), ext |-> entryHi.ext,
     asid |-> entryHi.asid, global |-> w.global, span |-> Span(w.field), lo |-> w.lo]

\* TLBWI and TLBWR.
WriteIndexed(i, w) ==
    /\ entryAt' = [entryAt EXCEPT ![i] = TlbEntry(w)]
    /\ FlushSoft
    /\ UNCHANGED <<entryHi, random, wired>>

WriteRandom(w) ==
    LET r == InRange(random, wired) IN
    /\ entryAt' = [entryAt EXCEPT ![r % NumEntries] = TlbEntry(w)]
    /\ random' = IF r >= RandomHi(wired) THEN RandomLo(wired) ELSE r + 1
    /\ FlushSoft
    /\ UNCHANGED <<entryHi, wired>>

\* TLBR: EntryHi becomes the entry's, ASID included. An index that was never written
\* reads as zero, like EntryHi after a reset.
ReadEntry(i) ==
    /\ entryAt[i] # NoEntry
    /\ AnyRead \/ entryAt[i].asid = entryHi.asid
    /\ entryHi' = [vpn2 |-> entryAt[i].vpn2, ext |-> entryAt[i].ext, asid |-> entryAt[i].asid]
    /\ UNCHANGED <<entryAt, random, wired, loads, stores>>

----------------------------------------------------------------------------
\* TLB::reset and Cop0::reset.
TlbInit ==
    /\ entryAt = [i \in Index |-> NoEntry]
    /\ entryHi = [vpn2 |-> 0, ext |-> FALSE, asid |-> 0]
    /\ random = NumEntries - 1 /\ wired = 0
    /\ loads = Empty /\ stores = Empty

\* The machine is reset: both tables and the TLB are emptied again.
TlbReset ==
    /\ entryAt' = [i \in Index |-> NoEntry]
    /\ entryHi' = [vpn2 |-> 0, ext |-> FALSE, asid |-> 0]
    /\ random' = NumEntries - 1 /\ wired' = 0
    /\ FlushSoft

TlbNext ==
    \/ TlbReset
    \/ \E p \in VPage, a \in {"load", "store"}, crosses, cached \in BOOLEAN :
          Access(p, a, crosses, cached)
    \/ \E p \in VPage, wide \in BOOLEAN, a \in Asid : WriteEntryHi(p, wide, a)
    \/ \E v \in WiredValue : WriteWired(v)
    \/ \E i \in Index, w \in Setting : WriteIndexed(i, w)
    \/ \E w \in Setting : WriteRandom(w)
    \/ \E i \in Index : ReadEntry(i)

TlbSpec == TlbInit /\ [][TlbNext]_tlbVars

----------------------------------------------------------------------------
(* Properties.                                                              *)

\* The soft TLB answers what the TLB would answer under the current ASID, so it
\* hides no miss, no invalid page and no write protection, over refills, changes of
\* the address space and every page size. (mmu/soft_tlb.cpp resolve_vaddr_cached,
\* cpu/cop0.cpp ENTRY_HI, mmu/tlb.cpp write_entry)
SoftTlbFresh ==
    \A s \in DOMAIN loads :
        /\ loads[s] # NoEntry => loads[s].paddr = Probe(loads[s].page, "load").paddr
        /\ stores[s] # NoEntry => stores[s].paddr = Probe(stores[s].page, "store").paddr

\* The refill a TLB miss asks for cures the miss: an entry written while EntryHi names
\* a page, with the 64-bit form an access uses, makes that page translate or raise
\* another error, whatever its size and the older entries. (mmu/tlb.cpp on_tlb_exception,
\* write_entry and lookup_tlb_entry_index)
RefillCures ==
    [][entryAt' # entryAt /\ ~TlbReset =>
         \A p \in VPage : entryHi.vpn2 = p \div 2 /\ entryHi.ext = Ext(p)
                         => Probe(p, "load")'.error # "miss"]_tlbVars
=============================================================================
