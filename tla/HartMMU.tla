-------------------------------- MODULE HartMMU --------------------------------
(***************************************************************************)
(* Address translation of a BIOS guest (mmu.go): the page-table walk, the  *)
(* three software TLBs that remember its results, and what invalidates     *)
(* them: sfence.vma and a change of satp.  One step is one instruction.    *)
(*                                                                         *)
(* Addresses are page numbers.  A table has Fan entries per level (512 in  *)
(* Sv39 and Sv48) and there are Levels levels (3 or 4); the bits of an     *)
(* address above those the walk uses have Uppers values (2^25 or 2^16).  A *)
(* page-table entry is split into what the walk only reads (pte) and the   *)
(* accessed and dirty bits it sets (ad).                                   *)
(***************************************************************************)
EXTENDS HartTraps, Integers, FiniteSets

CONSTANTS
    Levels, Fan,    \* shape of the radix tree
    Uppers,         \* how often its span fits into the address space
    TLBSize,        \* entries of each TLB (tlbSize)
    Tables,         \* physical pages that hold page tables
    Bare,           \* satp with MODE Bare
    Roots,          \* pages satp may name as the root
    VAs,            \* virtual pages the guest touches
    Workloads       \* guests: mode and page tables they start with, what they do

Kinds == {"load", "store", "fetch"}
EcallFrom == [U |-> "ecallU", S |-> "ecallS", M |-> "ecallM"]
\* The causes, of those that occur here, that implementedMedeleg lets firmware
\* delegate: page faults and the calls of user programs.
Delegable == Kinds \cup {EcallFrom["U"]}
AllOps == Kinds \cup {"sfence", "sstatus", "mstatus", "medeleg", "ecall", "mret", "sret"}
Rights == {"R", "W", "X", "U"}
PTEType == [v : BOOLEAN, perms : SUBSET Rights, ppn : Nat]
SlotSet == Tables \X (0..(Fan - 1))

ASSUME MMUAssumption ==
    /\ Levels \in Nat \ {0} /\ Fan \in Nat \ {0, 1} /\ TLBSize \in Nat \ {0}
    /\ Uppers \in Nat \ {0}
    /\ Tables \subseteq Nat /\ Roots \subseteq Tables /\ Bare \notin Tables
    /\ VAs \subseteq Nat
    /\ \A w \in Workloads :
         /\ w.mode \in ModeType(Delegable) /\ (w.mode.mprv => w.mode.priv = "M")
         /\ w.satp \in Roots \cup {Bare}
         /\ w.pte \in [SlotSet -> PTEType]
         /\ w.ops \subseteq AllOps /\ w.roots \subseteq Roots \cup {Bare}
         /\ w.edits \subseteq SlotSet \X PTEType
         /\ \A x \in w.watch : x.va \in Nat

VARIABLES
    work,    \* the guest, chosen at the start
    mode,    \* privilege, mstatus and medeleg
    satp,    \* Bare or the root table
    pte,     \* page tables in guest memory
    ad,      \* their A and D bits: a subset of {"A", "D"} per entry
    tlb,     \* loadTLB, storeTLB, fetchTLB
    edited,  \* history: entries the guest wrote since the last flush
    watch,   \* history: one translation, chosen at the start ...
    seen     \* ... and whether the tables gave it at any time since the last flush

vars == <<work, mode, satp, pte, ad, tlb, edited, watch, seen>>

NoEntry == [valid |-> FALSE]
EmptyTLB == [k \in Kinds |-> [i \in 0..(TLBSize - 1) |-> NoEntry]]

-----------------------------------------------------------------------------
(* The walk. *)

NoTable == -1

AlignDown(va, span) == va - (va % span)

\* Pages that an entry at a level of the tree spans.
SpanOf[level \in 0..Levels] == IF level = 0 THEN 1 ELSE Fan * SpanOf[level - 1]

Index(va, level) == (va \div SpanOf[level]) % Fan

\* The bits above repeat the highest one the walk uses.
CanonicalVA(va) ==
    va \div SpanOf[Levels] = IF Index(va, Levels - 1) < Fan \div 2 THEN 0 ELSE Uppers - 1

\* An entry that sends the walk one level down.
IsPointer(e) == e.v /\ e.perms \cap {"R", "W", "X"} = {}

\* The tables the walk for va visits: page of the table per level, NoTable below the
\* level where it ends.
Path(p, root, va) ==
    LET table[l \in 0..(Levels - 1)] ==
          IF l = Levels - 1 THEN root
          ELSE IF table[l + 1] = NoTable THEN NoTable
          ELSE LET e == p[table[l + 1], Index(va, l + 1)]
               IN  IF IsPointer(e) /\ e.ppn \in Tables THEN e.ppn ELSE NoTable
    IN  table

LastLevel(path) == CHOOSE l \in 0..(Levels - 1) :
                     path[l] # NoTable /\ \A h \in 0..(l - 1) : path[h] = NoTable

LeafSlot(p, root, va) ==
    LET path == Path(p, root, va)
        l    == LastLevel(path)
    IN  <<path[l], Index(va, l)>>

\* What the tables say about va: a leaf with its level, or no translation.  An
\* entry is refused if it is invalid, writable but not readable, a pointer at
\* the last level, or a large page that is not aligned to its size.
Translate(p, root, va) ==
    LET l == LastLevel(Path(p, root, va))
        e == p[LeafSlot(p, root, va)]
    IN  IF /\ CanonicalVA(va)
           /\ e.v /\ e.perms \cap {"R", "X"} # {}
           /\ "W" \in e.perms => "R" \in e.perms
           /\ e.ppn % SpanOf[l] = 0
        THEN [valid |-> TRUE, tag |-> AlignDown(va, SpanOf[l]), span |-> SpanOf[l],
              base |-> e.ppn, perms |-> e.perms]
        ELSE NoEntry

AccessAllowed(c, perms, kind) ==
    LET priv == MemoryPrivilege(c, kind)
        user == "U" \in perms
    IN  /\ priv = "U" => user
        /\ priv = "S" /\ user => kind # "fetch" /\ c.sum
        /\ CASE kind = "fetch" -> "X" \in perms
             [] kind = "store" -> "W" \in perms
             [] OTHER          -> "R" \in perms \/ (c.mxr /\ "X" \in perms)

\* lookup: translation is off in M mode and with a Bare satp.
Bypassed(kind) == MemoryPrivilege(mode, kind) = "M" \/ satp = Bare

\* A walk for an access of this kind: its translation if the access is allowed.
Walk(kind, va) ==
    LET t == Translate(pte, satp, va)
    IN  IF t.valid /\ AccessAllowed(mode, t.perms, kind) THEN t ELSE NoEntry

\* Deviation: loads and stores share a TLB.
Dev_OneDataTable(kind) == IF kind = "fetch" THEN "fetch" ELSE "load"

Table(kind) == kind

EntryFor(kind, va) == tlb[Table(kind)][va % TLBSize]

\* Deviation: a matching entry is used without asking whether it allows the
\* access in the present mode.
Dev_HitIgnoresRights(kind, va) ==
    LET e == EntryFor(kind, va)
    IN  e.valid /\ AlignDown(va, e.span) = e.tag

Hit(kind, va) ==
    LET e == EntryFor(kind, va)
    IN  e.valid /\ AlignDown(va, e.span) = e.tag /\ AccessAllowed(mode, e.perms, kind)

\* The translation an access uses.
Lookup(kind, va) == IF Hit(kind, va) THEN EntryFor(kind, va) ELSE Walk(kind, va)

-----------------------------------------------------------------------------
(* Instructions. *)

Gives(p, root) ==
    root # Bare /\ Translate(p, root, watch.va) = watch.t

Init ==
    /\ work \in Workloads
    /\ mode = work.mode /\ satp = work.satp /\ pte = work.pte
    /\ ad = [s \in SlotSet |-> {}]
    /\ tlb = EmptyTLB
    /\ edited = {}
    /\ watch \in work.watch
    /\ seen = Gives(pte, satp)

Traps(cause) ==
    /\ mode' = TrapToPrivileged(mode, cause)
    /\ UNCHANGED <<work, satp, pte, ad, tlb, edited, watch, seen>>

SetAD(kind, s) == ad[s] \cup (IF kind = "store" THEN {"A", "D"} ELSE {"A"})

\* A load, store or fetch.  A hit changes nothing; a miss walks, sets A and D
\* and fills the entry, or raises a page fault.
Access(kind, va) ==
    /\ kind \in work.ops /\ ~Bypassed(kind) /\ ~Hit(kind, va)
    /\ LET t == Walk(kind, va)
           s == LeafSlot(pte, satp, va)
       IN  \/ /\ t.valid
              /\ ad' = [ad EXCEPT ![s] = SetAD(kind, s)]
              /\ tlb' = [tlb EXCEPT ![Table(kind)][va % TLBSize] = t]
              /\ UNCHANGED <<work, mode, satp, pte, edited, watch, seen>>
           \/ ~t.valid /\ Traps(kind)

\* The guest edits a page table with a store of the whole entry.
StorePTE(s, e, bits) ==
    /\ pte' = [pte EXCEPT ![s] = e]
    /\ ad' = [ad EXCEPT ![s] = bits]
    /\ edited' = edited \cup {s}
    /\ seen' = (seen \/ Gives(pte', satp))
    /\ UNCHANGED <<work, mode, satp, tlb, watch>>

\* Deviation: the fetch TLB is not emptied.
Dev_FlushKeepsFetch(root) ==
    /\ tlb' = [EmptyTLB EXCEPT !["fetch"] = tlb["fetch"]]
    /\ edited' = {}
    /\ seen' = Gives(pte, root)

\* flush: every TLB is emptied.
Flush(root) ==
    /\ tlb' = EmptyTLB
    /\ edited' = {}
    /\ seen' = Gives(pte, root)

SfenceLegal == mode.priv # "U" /\ ~(mode.priv = "S" /\ mode.tvm)

SfenceVMA ==
    /\ "sfence" \in work.ops
    /\ \/ SfenceLegal /\ Flush(satp) /\ UNCHANGED <<work, mode, satp, pte, ad, watch>>
       \/ ~SfenceLegal /\ Traps("illegal")

\* writeCSR of satp; an unsupported mode or the present value changes nothing.
WriteSatp(root) ==
    /\ mode.priv # "U" /\ root # satp
    /\ satp' = root
    /\ Flush(root)
    /\ UNCHANGED <<work, mode, pte, ad, watch>>

WriteMode(m) ==
    /\ mode' = m
    /\ UNCHANGED <<work, satp, pte, ad, tlb, edited, watch, seen>>

WriteSstatus(sum, mxr, spp) ==
    /\ "sstatus" \in work.ops /\ mode.priv # "U"
    /\ WriteMode([mode EXCEPT !.sum = sum, !.mxr = mxr, !.spp = spp])

WriteMstatus(mpp, mprv, tvm, tsr) ==
    /\ "mstatus" \in work.ops /\ mode.priv = "M"
    /\ WriteMode([mode EXCEPT !.mpp = mpp, !.mprv = mprv, !.tvm = tvm, !.tsr = tsr])

WriteMedeleg(D) ==
    /\ "medeleg" \in work.ops /\ mode.priv = "M"
    /\ WriteMode([mode EXCEPT !.medeleg = D])

Ecall == "ecall" \in work.ops /\ Traps(EcallFrom[mode.priv])

Mret ==
    /\ "mret" \in work.ops
    /\ \/ MRETLegal(mode) /\ WriteMode(MRET(mode))
       \/ ~MRETLegal(mode) /\ Traps("illegal")

Sret ==
    /\ "sret" \in work.ops
    /\ \/ SRETLegal(mode) /\ WriteMode(SRET(mode))
       \/ ~SRETLegal(mode) /\ Traps("illegal")

Next ==
    \/ \E kind \in Kinds, va \in VAs : Access(kind, va)
    \/ \E edit \in work.edits, bits \in {{}, {"A", "D"}} : StorePTE(edit[1], edit[2], bits)
    \/ SfenceVMA
    \/ \E root \in work.roots : WriteSatp(root)
    \/ \E sum, mxr \in BOOLEAN, spp \in {"U", "S"} : WriteSstatus(sum, mxr, spp)
    \/ \E mpp \in Modes, mprv, tvm, tsr \in BOOLEAN : WriteMstatus(mpp, mprv, tvm, tsr)
    \/ \E D \in {{}, Delegable} : WriteMedeleg(D)
    \/ Ecall \/ Mret \/ Sret

Spec == Init /\ [][Next]_vars

-----------------------------------------------------------------------------
(* Properties. *)

EntryType == [valid : {TRUE}, tag : Nat, span : Nat, base : Nat, perms : SUBSET Rights]

\* Types; MPRV is never left on below M mode, which MRET and SRET see to.
TypeOK ==
    /\ mode \in ModeType(Delegable)
    /\ mode.mprv => mode.priv = "M"
    /\ satp \in Roots \cup {Bare}
    /\ pte \in [SlotSet -> PTEType]
    /\ ad \in [SlotSet -> SUBSET {"A", "D"}]
    /\ tlb \in [Kinds -> [0..(TLBSize - 1) -> EntryType \cup {NoEntry}]]
    /\ edited \subseteq SlotSet /\ seen \in BOOLEAN

\* The TLBs are invisible to a guest that fences its edits: while no table entry
\* has been written since the last flush, every access ends as a walk would end
\* in the present mode, with the same page or the same fault.  Changes of mode,
\* SUM, MXR, MPRV and satp need no fence, and MPRV does not outlive M mode.
TLBTransparent ==
    /\ TypeOK
    /\ edited = {} => \A kind \in Kinds, va \in VAs :
                        ~Bypassed(kind) => Lookup(kind, va) = Walk(kind, va)

\* Without a fence a stale translation may be used, but never one from before
\* the last sfence.vma or change of satp.
NothingOlderThanFence ==
    \A kind \in Kinds :
      ~Bypassed(kind) /\ Hit(kind, watch.va) /\ EntryFor(kind, watch.va) = watch.t => seen

\* An access that hits finds its page marked accessed, and a store finds it
\* marked dirty: the entry that lets it through was filled by a walk of the same
\* kind.
DirtyBeforeStore ==
    edited = {} => \A kind \in Kinds, va \in VAs :
      ~Bypassed(kind) /\ Hit(kind, va) =>
        (IF kind = "store" THEN {"A", "D"} ELSE {"A"}) \subseteq ad[LeafSlot(pte, satp, va)]
================================================================================
