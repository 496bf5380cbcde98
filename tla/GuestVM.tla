-------------------------------- MODULE GuestVM --------------------------------
(***************************************************************************)
(* The address space of a Jea9Linux process: the page overlay jea9LinuxVM  *)
(* (jea9linux.go), its system calls, and the table of executable regions   *)
(* the JIT consults (guestmem_exec.go).  Addresses are page numbers: every *)
(* address these functions keep is aligned, or rounded where it is used.   *)
(***************************************************************************)
EXTENDS Naturals, Sequences, FiniteSets

CONSTANTS
    NPages,    \* guestSize
    MinBrk,    \* the initial program break
    MmapBase,  \* jea9LinuxDefaultMmapBase
    Text,      \* the ELF's executable pages, which vm.pages does not track
    Prots,     \* protections the guest asks for, sets of "r", "w" and "x"
    Ranges     \* ranges <<begin, end>> it passes to its system calls

ASSUME VMAssumption ==
    /\ NPages \in Nat /\ NPages > 2
    /\ MinBrk \in 1..(NPages - 3) /\ MmapBase \in 1..(NPages - 3)
    /\ Text \subseteq 1..(NPages - 1)
    /\ Prots \subseteq SUBSET {"r", "w", "x"}
    /\ \A g \in Ranges : g \in (0..NPages) \X (0..NPages) /\ g[1] < g[2]

VARIABLES
    pages,     \* vm.pages: Untracked, Unmapped, or protection and NeedsZero
    brk,       \* vm.brk
    mmapNext,  \* vm.mmapNext
    regions,   \* execRegions
    restorer,  \* signalRestorer, 0 when there is none
    content,   \* guest memory: "zero", or "data" somebody wrote
    due        \* what a page must read as: "zero" since it was mapped, "data"
               \* since the guest wrote it, "any" for what the loader left

vars == <<pages, brk, mmapNext, regions, restorer, content, due>>

Page == 0..(NPages - 1)
Span(begin, end) == begin..(end - 1)

Untracked == [state |-> "untracked"]
Unmapped == [state |-> "unmapped"]
Mapped(prot, nz) == [state |-> "mapped", prot |-> prot, needsZero |-> nz]

IsMapped(p) == pages[p].state = "mapped"

\* CheckGuestAccess
Allows(p, access) ==
    /\ p # 0
    /\ \/ pages[p].state = "untracked"
       \/ IsMapped(p) /\ access \in pages[p].prot

Region(begin, end, jit) == [begin |-> begin, end |-> end, jit |-> jit]

-----------------------------------------------------------------------------
(* The table of executable regions.  Both functions build their result in  *)
(* the slice they are reading: after i turns the array is arr and the      *)
(* result its first len elements.                                          *)

Disjoint(r, begin, end) == r.end <= begin \/ r.begin >= end

\* arr with the elements of s written after the first n, as append does.
Written(arr, n, s) == SubSeq(arr, 1, n) \o s \o SubSeq(arr, n + Len(s) + 1, Len(arr))

AddTurn(t, r) ==
    IF Disjoint(r, t.new.begin, t.new.end)
    THEN [t EXCEPT !.arr = Written(@, t.len, <<r>>), !.len = @ + 1]
    ELSE [t EXCEPT !.new.begin = IF r.begin < @ THEN r.begin ELSE @,
                   !.new.end = IF r.end > @ THEN r.end ELSE @]

AddExecRegion(regs, begin, end, jit) ==
    LET loop[i \in 0..Len(regs)] ==
          IF i = 0 THEN [arr |-> regs, len |-> 0, new |-> Region(begin, end, jit)]
          ELSE AddTurn(loop[i - 1], loop[i - 1].arr[i])
        t == loop[Len(regs)]
    IN  Append(SubSeq(t.arr, 1, t.len), t.new)

\* Deviation: the left piece keeps a page too many.
Dev_PiecesOverlap(r, begin, end) ==
    IF Disjoint(r, begin, end) THEN <<r>>
    ELSE (IF r.begin < begin THEN <<Region(r.begin, begin + 1, r.jit)>> ELSE << >>)
         \o (IF r.end > end THEN <<Region(end, r.end, r.jit)>> ELSE << >>)

\* What is left of r.
Pieces(r, begin, end) ==
    IF Disjoint(r, begin, end) THEN <<r>>
    ELSE (IF r.begin < begin THEN <<Region(r.begin, begin, r.jit)>> ELSE << >>)
         \o (IF r.end > end THEN <<Region(end, r.end, r.jit)>> ELSE << >>)

RemoveTurn(t, s) == [arr |-> Written(t.arr, t.len, s), len |-> t.len + Len(s)]

RemoveExecRegion(regs, begin, end) ==
    LET loop[i \in 0..Len(regs)] ==
          IF i = 0 THEN [arr |-> regs, len |-> 0]
          ELSE RemoveTurn(loop[i - 1], Pieces(loop[i - 1].arr[i], begin, end))
        t == loop[Len(regs)]
    IN  SubSeq(t.arr, 1, t.len)

Covered(p) == \E i \in DOMAIN regions : regions[i].begin <= p /\ p < regions[i].end

UpdateExecMetadata(begin, end, prot) ==
    regions' = IF "x" \in prot THEN AddExecRegion(regions, begin, end, "w" \in prot)
               ELSE RemoveExecRegion(regions, begin, end)

-----------------------------------------------------------------------------
Init ==
    /\ pages = [p \in Page |-> Untracked]
    /\ brk = MinBrk /\ mmapNext = MmapBase /\ restorer = 0
    /\ regions = IF Text = {} THEN << >>
                 ELSE LET lo == CHOOSE p \in Text : \A q \in Text : p <= q
                      IN  <<Region(lo, lo + Cardinality(Text), FALSE)>>
    /\ content = [p \in Page |-> "data"]
    /\ due = [p \in Page |-> "any"]

On(f, span, v) == [p \in Page |-> IF p \in span THEN v ELSE f[p]]

\* mapRangeState
MapRangeState(begin, end, prot, nz) == pages' = On(pages, Span(begin, end), Mapped(prot, nz))

UnmapRange(begin, end) == pages' = On(pages, Span(begin, end), Unmapped)

Zero(begin, end) == content' = On(content, Span(begin, end), "zero")

NowZero(begin, end) == due' = On(due, Span(begin, end), "zero")

RangeUnmapped(begin, end) ==
    \E p \in Span(begin, end) : p = 0 \/ pages[p].state = "unmapped"

RangeFree(begin, end) == \A p \in Span(begin, end) : ~IsMapped(p)

\* Where allocRange finds n pages.
Candidates(n) ==
    {a \in mmapNext..(NPages - 2) : a + n <= NPages - 2 /\ a >= 1 /\ RangeFree(a, a + n)}

AllocRange(n) == CHOOSE a \in Candidates(n) : \A b \in Candidates(n) : a <= b

-----------------------------------------------------------------------------
(* System calls; one that fails changes nothing and is left out. *)

SysBrk(addr) ==
    /\ addr >= MinBrk /\ addr < NPages - 2
    /\ brk' = addr
    /\ \/ /\ addr > brk
          /\ Zero(brk, addr) /\ NowZero(brk, addr)
          /\ MapRangeState(brk, addr, {"r", "w"}, FALSE)
          /\ UNCHANGED regions
       \/ /\ addr < brk
          /\ UnmapRange(addr, brk)
          /\ regions' = RemoveExecRegion(regions, addr, brk)
          /\ UNCHANGED <<content, due>>
    /\ UNCHANGED <<mmapNext, restorer>>

MapAnonymous(begin, end, prot) ==
    /\ \/ prot = {} /\ UNCHANGED content
       \/ prot # {} /\ Zero(begin, end)
    /\ NowZero(begin, end)
    /\ MapRangeState(begin, end, prot, prot = {})
    /\ UpdateExecMetadata(begin, end, prot)
    /\ UNCHANGED <<brk, restorer>>

SysMmapFixed(begin, end, prot) ==
    /\ begin # 0
    /\ MapAnonymous(begin, end, prot)
    /\ UNCHANGED mmapNext

SysMmap(n, prot) ==
    /\ Candidates(n) # {}
    /\ mmapNext' = AllocRange(n) + n
    /\ MapAnonymous(AllocRange(n), AllocRange(n) + n, prot)

SysMunmap(begin, end) ==
    /\ UnmapRange(begin, end)
    /\ regions' = RemoveExecRegion(regions, begin, end)
    /\ UNCHANGED <<brk, mmapNext, restorer, content, due>>

NeedsZero(p) == IsMapped(p) /\ pages[p].needsZero

ZeroNeededRanges(begin, end) ==
    content' = On(content, {p \in Span(begin, end) : NeedsZero(p)}, "zero")

\* Deviation: a page forgets that it still has to be zeroed.
Dev_ProtectForgetsZero(begin, end, prot) ==
    pages' = On(pages, Span(begin, end), Mapped(prot, FALSE))

ProtectRange(begin, end, prot) ==
    pages' = [p \in Page |-> IF p \in Span(begin, end)
                             THEN Mapped(prot, prot = {} /\ NeedsZero(p)) ELSE pages[p]]

SysMprotect(begin, end, prot) ==
    /\ ~RangeUnmapped(begin, end)
    /\ \/ prot = {} /\ UNCHANGED content
       \/ prot # {} /\ ZeroNeededRanges(begin, end)
    /\ ProtectRange(begin, end, prot)
    /\ UpdateExecMetadata(begin, end, prot)
    /\ UNCHANGED <<brk, mmapNext, restorer, due>>

\* ensureSignalRestorer stores the code before it maps the page, so a page that
\* was unmapped earlier faults and the page found is passed over.
EnsureSignalRestorer ==
    LET a == AllocRange(1)
    IN  /\ restorer = 0 /\ Candidates(1) # {}
        /\ mmapNext' = a + 1
        /\ \/ /\ Allows(a, "w")
              /\ content' = [content EXCEPT ![a] = "data"]
              /\ due' = [due EXCEPT ![a] = "data"]
              /\ MapRangeState(a, a + 1, {"r", "x"}, FALSE)
              /\ UpdateExecMetadata(a, a + 1, {"r", "x"})
              /\ restorer' = a
           \/ /\ ~Allows(a, "w")
              /\ content' = [content EXCEPT ![a] = "zero"]
              /\ UNCHANGED <<due, pages, regions, restorer>>
        /\ UNCHANGED brk

\* A store of the guest; it faults on a page it may not write.
Store(p) ==
    /\ Allows(p, "w")
    /\ content' = [content EXCEPT ![p] = "data"]
    /\ due' = [due EXCEPT ![p] = "data"]
    /\ UNCHANGED <<pages, brk, mmapNext, regions, restorer>>

Next ==
    \/ \E p \in Page : SysBrk(p) \/ Store(p)
    \/ \E g \in Ranges, prot \in Prots :
         SysMmapFixed(g[1], g[2], prot) \/ SysMprotect(g[1], g[2], prot)
    \/ \E n \in {g[2] - g[1] : g \in Ranges}, prot \in Prots : SysMmap(n, prot)
    \/ \E g \in Ranges : SysMunmap(g[1], g[2])
    \/ EnsureSignalRestorer

Spec == Init /\ [][Next]_vars

-----------------------------------------------------------------------------
(* Properties. *)

\* Types; the break and the mappings allocRange chooses stay below the last two
\* pages of guest memory.
TypeOK ==
    /\ pages \in [Page -> {Untracked, Unmapped}
                           \cup {Mapped(t, nz) : t \in SUBSET {"r", "w", "x"}, nz \in BOOLEAN}]
    /\ brk \in MinBrk..(NPages - 3) /\ mmapNext \in MmapBase..(NPages - 2)
    /\ restorer \in {0} \cup MmapBase..(NPages - 3)
    /\ \A i \in DOMAIN regions :
         /\ regions[i] \in [begin : Page, end : 1..NPages, jit : BOOLEAN]
         /\ regions[i].begin < regions[i].end
    /\ content \in [Page -> {"zero", "data"}]
    /\ due \in [Page -> {"zero", "data", "any"}]

\* The state has its types, and a page the guest can read shows what it must: zero since it was mapped,
\* unless the guest wrote it, and then what it wrote.  Zeroing is put off for a
\* page mapped without access, so it must survive every sequence of mprotect,
\* and happen no second time.
MappedContents ==
    /\ TypeOK
    /\ \A p \in Page : Allows(p, "r") /\ due[p] # "any" => content[p] = due[p]

\* The JIT finds a region only for pages that are executable.  The heap is
\* excepted: sysBrk grows over executable pages without updating the table.
RegionsOnlyExec ==
    \A p \in Page : Covered(p) /\ p \notin Span(MinBrk, brk) => Allows(p, "x")

\* Every page made executable is found: removing a range keeps the regions
\* disjoint from it.
RegionsCoverExec ==
    \A p \in Page : IsMapped(p) /\ "x" \in pages[p].prot => Covered(p)
================================================================================
