--------------------------------- MODULE MCMMU ---------------------------------
(* An instance of HartMMU for TLC: two levels of two entries, two address      *)
(* spaces that share a last-level table, and large pages of two small ones.    *)
(* Pages 0, 1, 6 and 7 are canonical, 2 to 5 are not; the first address space  *)
(* maps the table in both halves.                                              *)
EXTENDS HartMMU

Leaf(ppn, perms) == [v |-> TRUE, perms |-> perms, ppn |-> ppn]
Pointer(table) == Leaf(table, {})
Invalid == [v |-> FALSE, perms |-> {}, ppn |-> 0]

MMUTables == {10, 20, 30}

PageTables(leaf0, leaf1) ==
    [s \in MMUTables \X {0, 1} |->
       CASE s \in {<<10, 0>>, <<10, 1>>, <<20, 0>>} -> Pointer(30)
         [] s = <<30, 0>>                            -> leaf0
         [] s = <<30, 1>>                            -> leaf1
         [] OTHER                                    -> Invalid]

Supervisor == [ResetMode EXCEPT !.priv = "S", !.medeleg = Delegable]

\* A translation of the small page va, and one of the large page at 0.
Small(va, leaf) ==
    [va |-> va, t |-> [valid |-> TRUE, tag |-> va, span |-> 1,
                       base |-> leaf.ppn, perms |-> leaf.perms]]
Large(va, leaf) ==
    [va |-> va, t |-> [valid |-> TRUE, tag |-> 0, span |-> 2,
                       base |-> leaf.ppn, perms |-> leaf.perms]]

User == Leaf(5, {"R", "W", "U"})
Kernel == Leaf(7, {"R", "W"})
Code == Leaf(6, {"X"})
Big == Leaf(4, {"R", "W"})
BigCode == Leaf(4, {"X"})

\* A kernel that edits its page tables, with or without fences: tables, pages,
\* aligned and misaligned large pages, an entry writable but not readable.
Edits(big) ==
    { <<<<10, 0>>, Pointer(30)>>, <<<<10, 0>>, big>>, <<<<10, 0>>, Leaf(5, {"R"})>>,
      <<<<30, 0>>, User>>, <<<<30, 0>>, Leaf(6, {"W"})>>, <<<<30, 0>>, Code>>,
      <<<<30, 0>>, Pointer(20)>> }

EditingData ==
    [mode |-> [Supervisor EXCEPT !.sum = TRUE], satp |-> 10, pte |-> PageTables(User, Kernel),
     ops |-> {"load", "store", "sfence"}, roots |-> {10, 20}, edits |-> Edits(Big),
     watch |-> {Small(0, User), Small(6, User), Small(1, Kernel), Large(0, Big), Large(1, Big)}]

EditingCode ==
    [EditingData EXCEPT !.ops = {"fetch", "sfence", "sret", "ecall"}, !.edits = Edits(BigCode),
                        !.watch = {Small(0, Code), Large(0, BigCode), Large(1, BigCode)}]

\* Firmware and a kernel that change modes and rights but not the tables.
Switching(leaf0, leaf1) ==
    [mode |-> ResetMode, satp |-> 10, pte |-> PageTables(leaf0, leaf1),
     ops |-> AllOps, roots |-> {10, Bare}, edits |-> {}, watch |-> {Small(0, leaf0)}]

MMUWorkloads == {EditingData, EditingCode, Switching(User, Code)}
================================================================================
