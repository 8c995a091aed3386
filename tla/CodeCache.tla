------------------------------ MODULE CodeCache ------------------------------
(***************************************************************************)
(* The two caches of decoded guest code and what keeps them in step with   *)
(* RDRAM: the dynarec's CodeCache (src/cpu/jit/code_cache.cpp, jit.cpp,    *)
(* translate.cpp) and the interpreter's DecodeCache                        *)
(* (src/cpu/cached_interp.cpp), which the dynarec falls back on.           *)
(*                                                                         *)
(* The CACHE instruction does nothing: all coherence comes from the code   *)
(* invalidate hook, which a writer of RDRAM may or may not call.  RDRAM is *)
(* a row of 32-bit words in pages; what an instruction does is reduced to  *)
(* what a translator sees of it, its Kind.  The CPU may jump anywhere in   *)
(* EntryAddr; stores and DMAs may happen between any two dispatches.       *)
(***************************************************************************)
EXTENDS Integers, Sequences

CONSTANTS NumPages, PageWords,
          MaxBlockInsns,   \* MAX_BLOCK_INSNS
          Word,            \* the instruction words
          Kind,            \* Word -> "plain", "branch" or "foreign": what
                           \* decode_one makes of it, "foreign" is false
          Image,           \* the contents of RDRAM at reset
          EntryAddr,       \* where the guest jumps to
          BusAddr,         \* where stores through Memory::write_paddr go
          HelperAddr,      \* where do_swl, do_swr and slow do_store go
          InlineAddr,      \* where stores inlined in a block go
          DmaRange,        \* <<first, last>> words of PI and RSP DMAs
          SiRange,         \* and of SI DMAs
          NoWord           \* not an instruction

Addr == 0 .. NumPages * PageWords - 1

Page(a) == a \div PageWords

ASSUME CodeCacheAssumption ==
  /\ NumPages \in Nat \ {0}
  /\ PageWords \in Nat \ {0}
  /\ MaxBlockInsns \in Nat \ {0}
  /\ Kind \in [Word -> {"plain", "branch", "foreign"}]
  /\ Image \in [Addr -> Word]
  /\ NoWord \notin Word
  /\ EntryAddr \cup BusAddr \cup HelperAddr \cup InlineAddr \subseteq Addr
  /\ DmaRange \cup SiRange \subseteq {r \in Addr \X Addr : r[1] <= r[2]}

VARIABLES rdram,
          entries,     \* Page::entries: the block at each address, <<>> if none
          has_code,    \* Page::has_code
          last_hit,    \* last_hit_: a block, or NoHint
          decoded,     \* the interpreter's word at each address, or NoWord
          delay_slot   \* the address of a pending delay slot, or NoSlot

vars == <<rdram, entries, has_code, last_hit, decoded, delay_slot>>

PageId == 0 .. NumPages - 1

Block == [paddr : Addr, words : Seq(Word)]

NoHint == [paddr |-> 0, words |-> <<>>]

NoSlot == -1

NoBlocks == [a \in Addr |-> <<>>]

NoMarks == [p \in PageId |-> FALSE]

Init ==
  /\ rdram = Image
  /\ entries = NoBlocks
  /\ has_code = NoMarks
  /\ last_hit = NoHint
  /\ decoded = [a \in Addr |-> NoWord]
  /\ delay_slot = NoSlot

-----------------------------------------------------------------------------
(***************************************************************************)
(* translate_block: how many words from a on become one block.             *)
(***************************************************************************)

IsKind(a, k) == a \in Addr /\ Kind[rdram[a]] = k

PlainRuns(a) ==
  {n \in 0 .. MaxBlockInsns :
     \A i \in 0 .. n - 1 : IsKind(a + i, "plain") /\ Page(a + i) = Page(a)}

PlainRun(a) == CHOOSE n \in PlainRuns(a) : \A m \in PlainRuns(a) : m <= n

\* A branch closes the block and takes its delay slot in, from the next page
\* too; without room for the slot it ends the block alone; with a slot that
\* cannot be translated it is left out.  0: nothing can be translated.
BlockLength(a) ==
  LET n    == PlainRun(a)
      next == a + n
  IN  IF n < MaxBlockInsns /\ IsKind(next, "branch") /\ Page(next) = Page(a)
      THEN IF n + 1 = MaxBlockInsns THEN n + 1
           ELSE IF IsKind(next + 1, "plain") \/ IsKind(next + 1, "branch") THEN n + 2
           ELSE n
      ELSE n

Translate(a) == [i \in 1 .. BlockLength(a) |-> rdram[a + i - 1]]

-----------------------------------------------------------------------------
(***************************************************************************)
(* The dispatcher: Dynarec::run.                                           *)
(***************************************************************************)

\* lookup(): the one-entry hint is asked before the page.
Lookup(a) ==
  IF last_hit # NoHint /\ last_hit.paddr = a THEN last_hit.words ELSE entries[a]

NextSlot(a) == IF a + 1 \in Addr THEN a + 1 ELSE NoSlot

\* A block that ends in a branch without its delay slot.
EndsInBareBranch(words) ==
  /\ Kind[words[Len(words)]] = "branch"
  /\ Len(words) > 1 => Kind[words[Len(words) - 1]] # "branch"

RunWords(a, words) ==
  /\ last_hit' = [paddr |-> a, words |-> words]
  /\ delay_slot' = IF EndsInBareBranch(words) THEN NextSlot(a + Len(words) - 1)
                   ELSE NoSlot

RunBlock(a) ==
  /\ delay_slot = NoSlot
  /\ Lookup(a) # <<>>
  /\ RunWords(a, Lookup(a))
  /\ UNCHANGED <<rdram, entries, has_code, decoded>>

MutInsertUnmarked(a, words, blocks, marks) ==
  /\ entries' = [blocks EXCEPT ![a] = words]
  /\ has_code' = marks

Insert(a, words, blocks, marks) ==
  /\ entries' = [blocks EXCEPT ![a] = words]
  /\ has_code' = [marks EXCEPT ![Page(a)] = TRUE]

\* compile() and the first run.  alloc_exec clears the whole cache first
\* when it holds too many blocks or too many bytes.
CompileBlock(a) ==
  /\ delay_slot = NoSlot
  /\ Lookup(a) = <<>>
  /\ BlockLength(a) > 0
  /\ \/ Insert(a, Translate(a), entries, has_code)
     \/ Insert(a, Translate(a), NoBlocks, NoMarks)
  /\ RunWords(a, Translate(a))
  /\ UNCHANGED <<rdram, decoded>>

\* run_interpreter_fallback: a pending delay slot, or an address at which
\* nothing can be translated.
Interpret(a) ==
  /\ \/ delay_slot = a
     \/ delay_slot = NoSlot /\ Lookup(a) = <<>> /\ BlockLength(a) = 0
  /\ LET word == IF decoded[a] # NoWord THEN decoded[a] ELSE rdram[a] IN
       /\ decoded' = [decoded EXCEPT ![a] = word]
       /\ delay_slot' = IF Kind[word] = "branch" THEN NextSlot(a) ELSE NoSlot
  /\ UNCHANGED <<rdram, entries, has_code, last_hit>>

-----------------------------------------------------------------------------
(***************************************************************************)
(* Invalidation.                                                           *)
(***************************************************************************)

MutFirstPageOnly(first, last) == {p \in {Page(first)} : has_code[p]}

\* Dynarec::invalidate_range: the pages it drops.  A write of up to 8 bytes
\* (two words) is rejected by a look at its first page alone.
DroppedPages(first, last) ==
  IF last - first <= 1 /\ ~has_code[Page(first)] THEN {}
  ELSE {p \in Page(first) .. Page(last) : has_code[p]}

MutKeepHint(pages) ==
  /\ entries' = [a \in Addr |-> IF Page(a) \in pages THEN <<>> ELSE entries[a]]
  /\ has_code' = [p \in PageId |-> has_code[p] /\ p \notin pages]
  /\ UNCHANGED last_hit

\* CodeCache::invalidate_range.
DropPages(pages) ==
  /\ entries' = [a \in Addr |-> IF Page(a) \in pages THEN <<>> ELSE entries[a]]
  /\ has_code' = [p \in PageId |-> has_code[p] /\ p \notin pages]
  /\ last_hit' = IF pages = {} THEN last_hit ELSE NoHint

MutHookJitOnly(first, last) ==
  /\ DropPages(DroppedPages(first, last))
  /\ UNCHANGED decoded

\* The hook that Dynarec::reset installs: both caches.
CodeInvalidateHook(first, last) ==
  /\ DropPages(DroppedPages(first, last))
  /\ decoded' = [a \in Addr |-> IF Page(a) \in Page(first) .. Page(last)
                                THEN NoWord ELSE decoded[a]]

-----------------------------------------------------------------------------
(***************************************************************************)
(* The writers of RDRAM.                                                   *)
(***************************************************************************)

\* Memory::write_paddr: every store of the interpreter, and of a helper
\* outside RDRAM.
BusStore(a, w) ==
  /\ rdram' = [rdram EXCEPT ![a] = w]
  /\ CodeInvalidateHook(a, a)
  /\ UNCHANGED delay_slot

\* note_rdram_store: the dynarec's blocks, but not the decode cache.
HelperStore(a, w) ==
  /\ rdram' = [rdram EXCEPT ![a] = w]
  /\ DropPages(IF has_code[Page(a)] THEN DroppedPages(a, a) ELSE {})
  /\ UNCHANGED <<decoded, delay_slot>>

\* emit_rdram_access: a store compiled into a block, to KSEG0, KSEG1 or a
\* page in the soft TLB, writes RDRAM and nothing else.
InlineStore(a, w) ==
  /\ rdram' = [rdram EXCEPT ![a] = w]
  /\ UNCHANGED <<entries, has_code, last_hit, decoded, delay_slot>>

Overwrite(range, data) ==
  rdram' = [a \in Addr |-> IF a \in range[1] .. range[2] THEN data[a] ELSE rdram[a]]

\* PI::dma_write and Rsp::dma_write.
Dma(range, data) ==
  /\ Overwrite(range, data)
  /\ CodeInvalidateHook(range[1], range[2])
  /\ UNCHANGED delay_slot

\* SI::dma_from_pif_to_dram calls no hook.
SiDma(range, data) ==
  /\ Overwrite(range, data)
  /\ UNCHANGED <<entries, has_code, last_hit, decoded, delay_slot>>

Next ==
  \/ \E a \in EntryAddr : RunBlock(a) \/ CompileBlock(a)
  \/ \E a \in Addr : a \in EntryAddr \cup {delay_slot} /\ Interpret(a)
  \/ \E a \in BusAddr, w \in Word : BusStore(a, w)
  \/ \E a \in HelperAddr, w \in Word : HelperStore(a, w)
  \/ \E a \in InlineAddr, w \in Word : InlineStore(a, w)
  \/ \E r \in DmaRange : \E data \in [r[1] .. r[2] -> Word] : Dma(r, data)
  \/ \E r \in SiRange : \E data \in [r[1] .. r[2] -> Word] : SiDma(r, data)

Spec == Init /\ [][Next]_vars

-----------------------------------------------------------------------------
(***************************************************************************)
(* Properties.                                                             *)
(***************************************************************************)

TypeOK ==
  /\ rdram \in [Addr -> Word]
  /\ \A a \in Addr :
       entries[a] # <<>> => /\ entries[a] \in Seq(Word)
                            /\ Len(entries[a]) \in 1 .. MaxBlockInsns
  /\ has_code \in [PageId -> BOOLEAN]
  /\ last_hit \in Block
  /\ decoded \in [Addr -> Word \cup {NoWord}]
  /\ delay_slot \in Addr \cup {NoSlot}

\* The shortcut of lookup() answers as the page would: whatever is dropped
\* or flushed, a hint never outlives the block it names.
HintIsEntry ==
  last_hit # NoHint => entries[last_hit.paddr] = last_hit.words

\* The cheap rejects of invalidate_range and note_rdram_store are sound for
\* the page a block starts on: a page without the mark holds no block.
BlocksAreMarked ==
  \A a \in Addr : entries[a] # <<>> => has_code[Page(a)]

\* No block runs stale code: its words on the page it starts on are those
\* RDRAM holds now.
OwnPageFresh ==
  \A a \in Addr : entries[a] # <<>> =>
    \A i \in 1 .. Len(entries[a]) :
      Page(a + i - 1) = Page(a) => entries[a][i] = rdram[a + i - 1]

\* The interpreter runs no stale word, though in the dynarec it runs only
\* now and then, between writes it never sees.
DecodeFresh ==
  \A a \in Addr : decoded[a] # NoWord => decoded[a] = rdram[a]

\* "True if any compiled block lives on the 4KiB page containing paddr"
\* (code_cache.h:38), said of every page a block has words on.
PageHasCode ==
  \A a \in Addr : entries[a] # <<>> =>
    \A i \in 1 .. Len(entries[a]) : has_code[Page(a + i - 1)]

=============================================================================
